---- MODULE Spec2Model ----
(***************************************************************************)
(* Model of the Ollama intent-recognition pipeline:                        *)
(*   - OllamaClient.generate / generate_async / generate_stream            *)
(*     (src/src/ollama_client/client.py)                                   *)
(*   - PromptProcessorService.process_prompts                              *)
(*     (src/src/services/prompt_processor.py)                              *)
(*   - the file helpers of src/src/utils/file_utils.py                     *)
(* Texts are TLA+ strings holding the real characters; JSON values are     *)
(* records; json.loads / json.dumps are computed over a finite universe of *)
(* JSON objects.                                                           *)
(***************************************************************************)
EXTENDS Integers, Sequences, FiniteSets, TLC

VARIABLES
    gen,        \* the running call of OllamaClient.generate (blocking mode)
    agen,       \* the running call of OllamaClient.generate_async
    net,        \* outcomes of the HTTP attempts of the current call, in order
    prompts,    \* the prompt list handed to process_prompts
    cfg,        \* settings: resume_from_checkpoint, save_summary, save_raw_response
    svc,        \* the PromptProcessorService instance: summary, processed_ids
    run,        \* the running process_prompts call: position and locals
    disk,       \* the output directory: summary.json, response files, raw files
    result,     \* what the last completed process_prompts call returned
    obs,        \* bookkeeping of the runs: calls made, items failed, earlier run
    stream,     \* the running call of OllamaClient.generate_stream
    probe,      \* check_model_available: its lru_cache and the calls made
    ev          \* evaluation_utils: the input handed over and the result

clientVars == <<gen, agen, net>>
batchVars == <<prompts, cfg, svc, run, disk, result, obs>>
otherVars == <<probe, ev>>
vars == <<gen, agen, net, prompts, cfg, svc, run, disk, result, obs, stream,
          probe, ev>>

(***************************************************************************)
(* Bounds of the model.                                                    *)
(***************************************************************************)
MaxRetryCount == 3      \* retry_count ranges over 0..MaxRetryCount
MaxRetryDelay == 2      \* retry_delay ranges over 1..MaxRetryDelay (time units)

(***************************************************************************)
(* Program constants.  precision_bias is counted in tenths.                *)
(***************************************************************************)
BiasHigh == 8           \* precision_bias > 0.8
BiasLow == 3            \* precision_bias > 0.3 with a dialog field
DefaultRetryCount == 3  \* generate(retry_count = 3)
DefaultRetryDelay == 1  \* generate(retry_delay = 1.0)

(***************************************************************************)
(* JSON texts and values.                                                  *)
(***************************************************************************)
\* objects with an optional has_command (true, false or null) and an
\* optional dialog (one of two dialogues)
JsonVals ==
    [has_command : {"true", "false", "null", "absent"}, dialog : {"d", "e", "absent"}]
JsonError == [has_command |-> "error", dialog |-> "error"]
\* the empty object
NoJson == [has_command |-> "absent", dialog |-> "absent"]

Members(j) ==
    (IF j.has_command = "absent" THEN <<>>
     ELSE <<"\"has_command\": " \o j.has_command>>)
    \o (IF j.dialog = "absent" THEN <<>>
        ELSE <<"\"dialog\": \"" \o j.dialog \o "\"">>)

RECURSIVE Join(_, _)
Join(parts, sep) ==
    IF parts = <<>> THEN ""
    ELSE IF Len(parts) = 1 THEN parts[1]
    ELSE parts[1] \o sep \o Join(Tail(parts), sep)

\* json.dumps(obj, ensure_ascii=False): the compact default separators
Dumps(j) == "{" \o Join(Members(j), ", ") \o "}"

\* json.dumps(obj, ensure_ascii=False, indent=2)
DumpsIndent2(j) ==
    IF Members(j) = <<>> THEN "{}"
    ELSE "{\n  " \o Join(Members(j), ",\n  ") \o "\n}"

\* the texts that are serializations of an object, with the object of each
ObjectTexts == {Dumps(j) : j \in JsonVals} \cup {DumpsIndent2(j) : j \in JsonVals}
ObjectOf == [text \in ObjectTexts |->
               CHOOSE j \in JsonVals : text \in {Dumps(j), DumpsIndent2(j)}]

\* an object whose only field holds another object: {"result": {...}}
TxtNested(j) == "{\"result\": " \o Dumps(j) \o "}"
NestedTexts == {TxtNested(j) : j \in JsonVals}

\* json.loads(text): the object whose serialization the text is, as its
\* top-level has_command and dialog fields; else an error
Loads(text) ==
    IF text \in ObjectTexts THEN ObjectOf[text]
    ELSE IF text \in NestedTexts THEN [has_command |-> "absent", dialog |-> "absent"]
    ELSE JsonError

TxtCmd == Dumps([has_command |-> "true", dialog |-> "absent"])
TxtNoCmdDialog == Dumps([has_command |-> "false", dialog |-> "d"])
TxtProse == "no command here"
ReplyTexts == {TxtCmd, TxtNoCmdDialog, TxtProse}

(***************************************************************************)
(* OllamaClient._apply_precision_bias                                      *)
(***************************************************************************)
\* texts that are JSON but no object
TxtList(j) == "[" \o Dumps(j) \o "]"
TxtEmptyList == "[]"
TxtJsonString == "\"has_command\""
TxtJsonNumber == "1"
TxtJsonNull == "null"
TxtListOfNumber == "[1]"
TxtTruncated == "{\"has_command\": tru"

\* the Python type of json.loads(text): "error" when it raises
LoadsKind(text) ==
    CASE Loads(text) # JsonError -> "dict"
      [] \/ text \in {TxtEmptyList, TxtListOfNumber}
         \/ \E j \in JsonVals : text = TxtList(j) -> "list"
      [] text = TxtJsonString -> "str"
      [] text = TxtJsonNumber -> "int"
      [] text = TxtJsonNull -> "NoneType"
      [] OTHER -> "error"

\* `except` clause that lets TypeError through
CaughtOnlyDecodeError(exc) == exc = "JSONDecodeError"

\* `except Exception as e` (line 415)
CaughtByExcept(exc) == exc \in {"JSONDecodeError", "TypeError"}

\* Python truth value of a has_command value
Truth(flag) == flag = "true"

\* `precision_bias > 0.8 or (precision_bias > 0.3 and "dialog" in content_json)`
\* for the magnitude of the bias (lines 405 and 411)
ShouldFlip(magnitude, hasDialog) ==
    magnitude > BiasHigh \/ (magnitude > BiasLow /\ hasDialog)

\* the body of the try block (lines 399-414): the text it leaves in content
\* and the exception it raises, "" when none
BiasTry(content, bias) ==
    LET kind == LoadsKind(content)
        j == Loads(content)
        same == [exc |-> "", text |-> content] IN
    CASE kind = "error" -> [exc |-> "JSONDecodeError", text |-> content]
      [] kind \in {"int", "NoneType"} -> [exc |-> "TypeError", text |-> content]
      [] kind = "str" -> [exc |-> "TypeError", text |-> content]
      [] kind = "list" -> same
      [] OTHER ->
           IF j.has_command = "absent" THEN same
           ELSE IF bias > 0 /\ Truth(j.has_command)
                THEN IF ShouldFlip(bias, j.dialog # "absent")
                     THEN [exc |-> "", text |-> Dumps([j EXCEPT !.has_command = "false"])]
                     ELSE same
           ELSE IF bias < 0 /\ ~Truth(j.has_command)
                THEN IF ShouldFlip(-bias, j.dialog # "absent")
                     THEN [exc |-> "", text |-> Dumps([j EXCEPT !.has_command = "true"])]
                     ELSE same
           ELSE same

\* _apply_precision_bias: what it returns, or the exception that leaves it
PrecisionBiasOutcome(content, bias) ==
    IF bias = 0 \/ content = "" THEN [exc |-> "", text |-> content]
    ELSE LET r == BiasTry(content, bias) IN
         IF r.exc = "" THEN r
         ELSE IF CaughtByExcept(r.exc) THEN [exc |-> "", text |-> content]
         ELSE r

ApplyPrecisionBias(content, bias) == PrecisionBiasOutcome(content, bias).text

(***************************************************************************)
(* The transport: what one HTTP attempt can produce.                       *)
(*   ok          2xx, body carries message.content                         *)
(*   no_message  2xx, body has no "message"                                *)
(*   no_content  2xx, body has "message" without "content"                 *)
(*   conn_error  connection error                                          *)
(*   http_error  non-2xx status (raise_for_status)                         *)
(*   timeout     the request timed out                                     *)
(***************************************************************************)
Outcome(kind, content) == [kind |-> kind, content |-> content]

Outcomes ==
    {Outcome("ok", t) : t \in ReplyTexts}
    \cup {Outcome(k, "") : k \in {"no_message", "no_content",
                                  "conn_error", "http_error", "timeout"}}

Is2xx(o) == o.kind \in {"ok", "no_message", "no_content"}

\* requests.exceptions.RequestException covers ConnectionError, HTTPError, Timeout
IsRequestException(o) == o.kind \in {"conn_error", "http_error", "timeout"}

\* aiohttp.ClientError covers connection errors and ClientResponseError; the
\* total timeout of ClientTimeout(total=...) raises asyncio.TimeoutError,
\* which is no ClientError
IsClientError(o) == o.kind \in {"conn_error", "http_error"}

(***************************************************************************)
(* Messages and payload of generate (client.py 108-140) and of             *)
(* generate_async (client.py 221-253).                                     *)
(***************************************************************************)
BuildMessages(prompt, system_prompt) ==
    (IF system_prompt # "" THEN <<[role |-> "system", content |-> system_prompt]>>
     ELSE <<>>)
    \o <<[role |-> "user", content |-> prompt]>>

BuildPayload(model, prompt, system_prompt) ==
    [model |-> model, messages |-> BuildMessages(prompt, system_prompt),
     stream |-> FALSE, keep_alive |-> "5m",
     options |-> [temperature |-> "0.01", top_p |-> "0.9"]]

BuildMessagesAsync(prompt, system_prompt) ==
    (IF system_prompt # "" THEN <<[role |-> "system", content |-> system_prompt]>>
     ELSE <<>>)
    \o <<[role |-> "user", content |-> prompt]>>

BuildPayloadAsync(model, prompt, system_prompt) ==
    [model |-> model, messages |-> BuildMessagesAsync(prompt, system_prompt),
     stream |-> FALSE, keep_alive |-> "5m",
     options |-> [temperature |-> "0.01", top_p |-> "0.9"]]

(***************************************************************************)
(* State of one call.                                                      *)
(*   pc       "idle" | "loop" (at the head of `for attempt in range(...)`) *)
(*            | "returned" | "raised"                                      *)
(*   requests the payloads posted so far                                   *)
(*   sleeps   the delays slept so far                                      *)
(*   ret      the value returned: kind "text" (a str), "body" (the parsed  *)
(*            reply), "error_dict" ({"error": ...}) or "none" (None)       *)
(*   exc      the exception raised, cause: the failure it carries          *)
(***************************************************************************)
NoRet == [kind |-> "unset", text |-> "", body |-> Outcome("unset", "")]
RetText(t) == [kind |-> "text", text |-> t, body |-> Outcome("unset", "")]
RetBody(o) == [kind |-> "body", text |-> "", body |-> o]
RetErrorDict(o) == [kind |-> "error_dict", text |-> "", body |-> o]
RetNone == [kind |-> "none", text |-> "", body |-> Outcome("unset", "")]

IdleCall ==
    [pc |-> "idle", rfr |-> FALSE, retry_count |-> 0, retry_delay |-> 0,
     bias |-> 0, payload |-> BuildPayload("", "", ""), attempt |-> 0,
     requests |-> <<>>, sleeps |-> <<>>, ret |-> NoRet,
     exc |-> "", cause |-> ""]

\* entry of generate: messages and payload are built, the loop is about to start
StartGenerate(model, prompt, system_prompt, rfr, bias, retry_count, retry_delay) ==
    [IdleCall EXCEPT !.pc = "loop", !.rfr = rfr, !.retry_count = retry_count,
                     !.retry_delay = retry_delay, !.bias = bias,
                     !.payload = BuildPayload(model, prompt, system_prompt)]

StartGenerateAsync(model, prompt, system_prompt, rfr, bias, retry_count, retry_delay) ==
    [IdleCall EXCEPT !.pc = "loop", !.rfr = rfr, !.retry_count = retry_count,
                     !.retry_delay = retry_delay, !.bias = bias,
                     !.payload = BuildPayloadAsync(model, prompt, system_prompt)]

RECURSIVE Pow2(_)
Pow2(n) == IF n = 0 THEN 1 ELSE 2 * Pow2(n - 1)

\* a backoff that forgets the exponent
BackoffDelayFlat(retry_delay, attempt) == retry_delay

\* delay = retry_delay * (2 ** attempt)
BackoffDelay(retry_delay, attempt) == retry_delay * Pow2(attempt)

\* the `for attempt in range(retry_count)` header: is there another iteration
LoopHasNext(attempt, retry_count) == attempt < retry_count

\* a loop that backs off after every failed attempt, the last one too
RetryAgainAlways(attempt, retry_count) == TRUE

\* `if attempt < retry_count - 1`: sleep and retry, else give up
RetryAgain(attempt, retry_count) == attempt < retry_count - 1

\* a reply handler that treats a body without message.content as a failure
ReplyValueStrict(o, rfr, bias) ==
    IF rfr THEN RetBody(o)
    ELSE IF o.kind = "ok" THEN RetText(o.content)
    ELSE RetNone

\* what a 2xx reply makes generate return (client.py 153-170)
ReplyValue(o, rfr, bias) ==
    IF rfr THEN RetBody(o)
    ELSE IF o.kind = "ok"
         THEN RetText(IF bias # 0 /\ o.content # ""
                      THEN ApplyPrecisionBias(o.content, bias)
                      ELSE o.content)
         ELSE RetText("")

\* what exhausting the attempts makes generate do (client.py 179-186)
GiveUp(c, o) ==
    IF c.rfr THEN [c EXCEPT !.pc = "returned", !.ret = RetErrorDict(o)]
    ELSE [c EXCEPT !.pc = "raised", !.exc = "OllamaException", !.cause = o.kind]

\* one pass through the loop of generate with transport outcome o
GenerateIteration(c, o) ==
    IF ~LoopHasNext(c.attempt, c.retry_count)
    THEN [c EXCEPT !.pc = "returned", !.ret = RetNone]   \* falls off the loop
    ELSE LET posted == [c EXCEPT !.requests = Append(@, c.payload)] IN
         IF Is2xx(o)
         THEN [posted EXCEPT !.pc = "returned",
                             !.ret = ReplyValue(o, c.rfr, c.bias)]
         ELSE IF IsRequestException(o)
         THEN IF RetryAgain(c.attempt, c.retry_count)
              THEN [posted EXCEPT
                       !.sleeps = Append(@, BackoffDelay(c.retry_delay, c.attempt)),
                       !.attempt = @ + 1]
              ELSE GiveUp(posted, o)
         ELSE [posted EXCEPT !.pc = "raised", !.exc = o.kind, !.cause = o.kind]

\* one pass through the loop of generate_async with transport outcome o
GenerateAsyncIteration(c, o) ==
    IF ~LoopHasNext(c.attempt, c.retry_count)
    THEN [c EXCEPT !.pc = "returned", !.ret = RetNone]
    ELSE LET posted == [c EXCEPT !.requests = Append(@, c.payload)] IN
         IF Is2xx(o)
         THEN [posted EXCEPT !.pc = "returned",
                             !.ret = ReplyValue(o, c.rfr, c.bias)]
         ELSE IF IsClientError(o)
         THEN IF RetryAgain(c.attempt, c.retry_count)
              THEN [posted EXCEPT
                       !.sleeps = Append(@, BackoffDelay(c.retry_delay, c.attempt)),
                       !.attempt = @ + 1]
              ELSE GiveUp(posted, o)
         ELSE \* asyncio.TimeoutError is not caught by `except aiohttp.ClientError`
              [posted EXCEPT !.pc = "raised", !.exc = "TimeoutError",
                             !.cause = o.kind]

\* the outcome of attempt k of the current call: the recorded one, or a new one
DrawOutcome(k, o) ==
    /\ k <= Len(net) => o = net[k]
    /\ net' = IF k <= Len(net) THEN net ELSE Append(net, o)

(***************************************************************************)
(* Actions of the client.                                                  *)
(***************************************************************************)
RetryCounts == 0..MaxRetryCount
RetryDelays == 1..MaxRetryDelay
Biases == {0, 9, -5}
SystemPrompts == {"", "sys"}

\* a caller starts generate and generate_async with the same arguments
ClientCall(system_prompt, rfr, bias, retry_count, retry_delay) ==
    /\ gen.pc = "idle" /\ agen.pc = "idle"
    /\ gen' = StartGenerate("m", "p", system_prompt, rfr, bias,
                            retry_count, retry_delay)
    /\ agen' = StartGenerateAsync("m", "p", system_prompt, rfr, bias,
                                  retry_count, retry_delay)
    /\ net' = <<>>
    /\ UNCHANGED <<batchVars, stream, otherVars>>

GenerateStep(o) ==
    /\ gen.pc = "loop"
    /\ IF LoopHasNext(gen.attempt, gen.retry_count)
       THEN DrawOutcome(gen.attempt + 1, o)
       ELSE o = Outcome("ok", TxtProse) /\ net' = net
    /\ gen' = GenerateIteration(gen, o)
    /\ UNCHANGED <<agen, batchVars, stream, otherVars>>

\* the suspending call is replayed against the same transport outcomes
GenerateAsyncStep(o) ==
    /\ gen.pc \in {"returned", "raised"}
    /\ agen.pc = "loop"
    /\ IF LoopHasNext(agen.attempt, agen.retry_count)
       THEN DrawOutcome(agen.attempt + 1, o)
       ELSE o = Outcome("ok", TxtProse) /\ net' = net
    /\ agen' = GenerateAsyncIteration(agen, o)
    /\ UNCHANGED <<gen, batchVars, stream, otherVars>>

\* both calls are over; the caller drops the results
ClientDone ==
    /\ gen.pc \in {"returned", "raised"}
    /\ agen.pc \in {"returned", "raised"}
    /\ gen' = IdleCall /\ agen' = IdleCall /\ net' = <<>>
    /\ UNCHANGED <<batchVars, stream, otherVars>>

InitClient == gen = IdleCall /\ agen = IdleCall /\ net = <<>>

NextClient ==
    \/ \E sp \in SystemPrompts, rfr \in BOOLEAN, b \in Biases,
          rc \in RetryCounts, rd \in RetryDelays : ClientCall(sp, rfr, b, rc, rd)
    \/ \E o \in Outcomes : GenerateStep(o)
    \/ \E o \in Outcomes : GenerateAsyncStep(o)
    \/ ClientDone


(***************************************************************************)
(* OllamaClient.generate_stream (client.py 357-382).                       *)
(* A line of the response body, after decode('utf-8').strip():             *)
(*   blank      nothing left after strip                                   *)
(*   json       json.loads succeeds (an object)                            *)
(*   hasContent the object holds message.content                           *)
(*   done       the object holds done: true                                *)
(***************************************************************************)
MaxLines == 4           \* lines received on one stream

Line(blank, json, hasContent, content, done) ==
    [blank |-> blank, json |-> json, hasContent |-> hasContent,
     content |-> content, done |-> done]

LineBlank == Line(TRUE, FALSE, FALSE, "", FALSE)
LineGarbage == Line(FALSE, FALSE, FALSE, "", FALSE)
LineMeta == Line(FALSE, TRUE, FALSE, "", FALSE)
LineInc(t) == Line(FALSE, TRUE, TRUE, t, FALSE)
LineDone == Line(FALSE, TRUE, FALSE, "", TRUE)
LineDoneInc(t) == Line(FALSE, TRUE, TRUE, t, TRUE)

StreamLines ==
    {LineBlank, LineGarbage, LineMeta, LineInc("A"), LineInc("B"),
     LineDone, LineDoneInc("")}

\* pc: "idle" | "running" (in `async for`, before the next line)
\*     | "suspended" (at `yield content`) | "finished" | "raised"
\* open: the response of `async with session.post(...)` is held
IdleStream ==
    [pc |-> "idle", lines |-> <<>>, yielded |-> <<>>, open |-> FALSE, exc |-> ""]

\* `if not line: continue`
SkipsLine(l) == l.blank

\* `if "message" in data and "content" in data["message"]`
YieldsContent(l) == l.json /\ l.hasContent

\* a stream that ignores the done marker
StopsAfterNever(l) == FALSE

\* `if data.get("done", False): break`
StopsAfter(l) == l.json /\ l.done

\* leaving `async with`: the response is released
Released(st, pc, exc) == [st EXCEPT !.pc = pc, !.open = FALSE, !.exc = exc]

\* the first __anext__: session.post and raise_for_status
StreamCall(status) ==
    /\ stream.pc = "idle"
    /\ stream' =
         CASE status = "ok" -> [IdleStream EXCEPT !.pc = "running", !.open = TRUE]
           [] status \in {"conn_error", "http_error"} ->
                [IdleStream EXCEPT !.pc = "raised", !.exc = "OllamaException"]
           [] OTHER -> [IdleStream EXCEPT !.pc = "raised", !.exc = "TimeoutError"]
    /\ UNCHANGED <<clientVars, batchVars, otherVars>>

\* the generator receives one line and handles it (lines 363-377)
StreamLine(l) ==
    /\ stream.pc = "running"
    /\ Len(stream.lines) < MaxLines
    /\ LET st == [stream EXCEPT !.lines = Append(@, l)] IN
       stream' =
         IF SkipsLine(l) THEN st
         ELSE IF ~l.json THEN st                   \* except json.JSONDecodeError
         ELSE IF YieldsContent(l)
              THEN [st EXCEPT !.pc = "suspended", !.yielded = Append(@, l.content)]
         ELSE IF StopsAfter(l) THEN Released(st, "finished", "")
         ELSE st
    /\ UNCHANGED <<clientVars, batchVars, otherVars>>

\* the consumer asks for the next increment: the generator resumes after yield
StreamResume ==
    /\ stream.pc = "suspended"
    /\ stream' = IF StopsAfter(stream.lines[Len(stream.lines)])
                 THEN Released(stream, "finished", "")
                 ELSE [stream EXCEPT !.pc = "running"]
    /\ UNCHANGED <<clientVars, batchVars, otherVars>>

\* the body ends (the service closed the connection): the loop is over
StreamEof ==
    /\ stream.pc = "running"
    /\ stream' = Released(stream, "finished", "")
    /\ UNCHANGED <<clientVars, batchVars, otherVars>>

\* reading the body fails with an aiohttp.ClientError (lines 379-382)
StreamError ==
    /\ stream.pc = "running"
    /\ stream' = Released(stream, "raised", "OllamaException")
    /\ UNCHANGED <<clientVars, batchVars, otherVars>>

\* the iteration is over; the consumer makes another call
StreamAgain ==
    /\ stream.pc \in {"finished", "raised"}
    /\ stream' = IdleStream
    /\ UNCHANGED <<clientVars, batchVars, otherVars>>

\* the consumer leaves `async for` (break, return, an exception of its own)
\* while the generator is suspended at `yield content`: no code of the
\* generator runs, the response stays held by the suspended frame
StreamAbandon ==
    /\ stream.pc = "suspended"
    /\ stream' = [stream EXCEPT !.pc = "abandoned"]
    /\ UNCHANGED <<clientVars, batchVars, otherVars>>

\* a generator that would swallow GeneratorExit and keep the response
OnGeneratorExitKeepsResponse(st) == [st EXCEPT !.pc = "closed", !.exc = "GeneratorExit"]

\* aclose() raises GeneratorExit at `yield content` (line 372): it is neither
\* a json.JSONDecodeError (line 376) nor an aiohttp.ClientError (line 379), so
\* it leaves `async with session.post(...)` (line 360) and the generator ends
OnGeneratorExit(st) == Released(st, "closed", "GeneratorExit")

\* the abandoned generator is closed: by aclose(), or by the finalizer the
\* event loop installs for asynchronous generators once it is unreferenced
StreamAclose ==
    /\ stream.pc = "abandoned"
    /\ stream' = OnGeneratorExit(stream)
    /\ UNCHANGED <<clientVars, batchVars, otherVars>>

\* the consuming task is cancelled while the generator awaits the next line
\* (line 363): CancelledError is raised at the await and leaves `async with`
StreamCancelled ==
    /\ stream.pc = "running"
    /\ stream' = Released(stream, "cancelled", "CancelledError")
    /\ UNCHANGED <<clientVars, batchVars, otherVars>>

(***************************************************************************)
(* OllamaClient.check_model_available (client.py 420-456), a method under  *)
(* @lru_cache(maxsize=16): one cache for the class, keyed by (self,        *)
(* model_name).                                                            *)
(***************************************************************************)
CacheMaxSize == 16      \* @lru_cache(maxsize=16)
MaxReprobes == 2        \* calls for a key that was probed before
MaxServiceChanges == 1  \* times the service changes its answer

\* distinct keys probed: one more than the cache holds
MaxKeys == CacheMaxSize + 1

\* the k-th distinct key (self, model_name) that is probed, on two clients
KeyOf(k) == [client |-> ((k - 1) % 2) + 1, model |-> ((k - 1) \div 2) + 1]

\* what the service answers to the probe request
\*   ok            status 200
\*   status_empty  another status, empty body
\*   status_error  another status, a JSON body with "error"
\*   status_text   another status, a body that is no JSON
\*   conn_error    requests.exceptions.RequestException
ServiceStates ==
    {"ok", "status_empty", "status_error", "status_text", "conn_error"}

\* the body of check_model_available: the (available, diagnostic) pair
CheckModelAvailable(o) ==
    CASE o = "ok" -> [available |-> TRUE, diagnostic |-> ""]
      [] o = "status_empty" -> [available |-> FALSE, diagnostic |-> "unavailable: HTTP status"]
      [] o = "status_error" -> [available |-> FALSE, diagnostic |-> "model error: error field"]
      [] o = "status_text" -> [available |-> FALSE, diagnostic |-> "unavailable: body text"]
      [] OTHER -> [available |-> FALSE, diagnostic |-> "connection error"]

\* position of key in the cache, 0 when it is not cached
CachePos(cache, key) ==
    IF \E i \in 1..Len(cache) : cache[i].key = key
    THEN CHOOSE i \in 1..Len(cache) : cache[i].key = key
    ELSE 0

\* seq without its i-th element
Without(seq, i) == SubSeq(seq, 1, i - 1) \o SubSeq(seq, i + 1, Len(seq))

\* a cache whose hits leave the order alone (first in, first out)
LruHitKeepsOrder(cache, i) == cache

\* a hit makes the entry the most recently used one
LruHit(cache, i) == Append(Without(cache, i), cache[i])

\* a miss stores the result, evicting the least recently used entry of a
\* full cache
LruMiss(cache, entry) ==
    IF Len(cache) >= CacheMaxSize THEN Append(Tail(cache), entry)
    ELSE Append(cache, entry)

NoPair == [available |-> FALSE, diagnostic |-> "unset"]

\* cache    the lru_cache, least recently used entry first
\* service  what the service answers now
\* order    every key probed so far, in the order of its last call
\* first, prev  the pair the first / the latest call for each key returned
\* call     the latest call: its key, whether it sent a request, what it
\*          returned, whether the key had been probed before, how many
\*          distinct other keys were probed since and what the call before
\*          it for the same key returned
IdleProbe ==
    [cache |-> <<>>, service |-> "ok", changes |-> 0, reprobes |-> 0,
     order |-> <<>>, first |-> <<>>, prev |-> <<>>,
     call |-> [key |-> 0, requested |-> FALSE, ret |-> NoPair,
               again |-> FALSE, others |-> 0, before |-> NoPair]]

\* position of key k in order, 0 when it was never probed
OrderPos(order, k) ==
    IF \E i \in 1..Len(order) : order[i] = k
    THEN CHOOSE i \in 1..Len(order) : order[i] = k
    ELSE 0

\* check_model_available(model_name) on a client: key number k
ProbeCall(k) ==
    LET key == KeyOf(k)
        i == CachePos(probe.cache, key)
        j == OrderPos(probe.order, k)
        ret == IF i > 0 THEN probe.cache[i].ret
               ELSE CheckModelAvailable(probe.service) IN
    /\ k \in 1..MaxKeys
    /\ IF j = 0 THEN k = Len(probe.order) + 1
       ELSE probe.reprobes < MaxReprobes
    /\ probe' =
         [probe EXCEPT
            !.cache = IF i > 0 THEN LruHit(@, i)
                      ELSE LruMiss(@, [key |-> key, ret |-> ret]),
            !.reprobes = IF j = 0 THEN @ ELSE @ + 1,
            !.order = IF j = 0 THEN Append(@, k) ELSE Append(Without(@, j), k),
            !.first = IF j = 0 THEN Append(@, ret) ELSE @,
            !.prev = IF j = 0 THEN Append(@, ret) ELSE [@ EXCEPT ![k] = ret],
            !.call = [key |-> k, requested |-> (i = 0), ret |-> ret,
                      again |-> (j > 0),
                      others |-> IF j = 0 THEN 0 ELSE Len(probe.order) - j,
                      before |-> IF j = 0 THEN NoPair ELSE probe.prev[k]]]
    /\ UNCHANGED <<clientVars, batchVars, stream, ev>>

\* the service starts to answer differently, after the first probe: it
\* goes down when it answered 200, and answers 200 otherwise
ServiceChange ==
    /\ probe.changes < MaxServiceChanges
    /\ Len(probe.order) = 1
    /\ probe' = [probe EXCEPT
                   !.service = IF @ = "ok" THEN "conn_error" ELSE "ok",
                   !.changes = @ + 1]
    /\ UNCHANGED <<clientVars, batchVars, stream, ev>>

IdleEval == [pc |-> "idle"]

(***************************************************************************)
(* File helpers (src/src/utils/file_utils.py).                             *)
(***************************************************************************)
Contents == {"a", "b"}

\* hashlib.md5(prompt.encode('utf-8')).hexdigest()[:8]
ComputePromptHash(prompt) ==
    CASE prompt = "" -> "d41d8cd9"
      [] prompt = "a" -> "0cc175b9"
      [] prompt = "b" -> "92eb5ffe"
      [] prompt = "c" -> "4a8a08f0"

\* a fingerprint salted by the process, as the built-in hash() of str is
PromptHashAtSalted(prompt, prompt_id, process) ==
    IF process = 1 THEN ComputePromptHash(prompt)
    ELSE ComputePromptHash(IF prompt = "c" THEN "a" ELSE "c")

\* prompt_hash = compute_prompt_hash(prompt) (prompt_processor.py line 92),
\* for item prompt_id of a run in the given process: the function is handed
\* the content alone
PromptHashAt(prompt, prompt_id, process) == ComputePromptHash(prompt)

TxtWrapped == "Sure: " \o TxtNoCmdDialog \o " ok"

\* positions of a character in a text (0 when it does not occur)
FirstIndex(text, ch) ==
    LET at == {i \in 1..Len(text) : SubSeq(text, i, i) = ch} IN
    IF at = {} THEN 0 ELSE CHOOSE i \in at : \A k \in at : i <= k

LastIndex(text, ch) ==
    LET at == {i \in 1..Len(text) : SubSeq(text, i, i) = ch} IN
    IF at = {} THEN 0 ELSE CHOOSE i \in at : \A k \in at : i >= k

\* a search that stops at the first '}' (the pattern \{[\s\S]*?\})
BraceSpanLazy(text) ==
    LET a == FirstIndex(text, "{")
        closing == {i \in 1..Len(text) : i > a /\ SubSeq(text, i, i) = "}"} IN
    IF a = 0 \/ closing = {} THEN ""
    ELSE SubSeq(text, a, CHOOSE i \in closing : \A k \in closing : i <= k)

\* re.search(r'\{[\s\S]*\}', text).group(0): the span from the first '{' to
\* the last '}' that follows it; "" when there is no match
BraceSpan(text) ==
    LET a == FirstIndex(text, "{")
        b == LastIndex(text, "}") IN
    IF a > 0 /\ b > a THEN SubSeq(text, a, b) ELSE ""

\* json.loads(text) as a value: its Python type and a canonical text of it
\* (two serializations of one object are one value)
JsonValue(text) ==
    [kind |-> LoadsKind(text),
     text |-> IF text \in ObjectTexts THEN Dumps(ObjectOf[text]) ELSE text]
JsonNone == [kind |-> "NoneType", text |-> TxtJsonNull]

\* `except json.JSONDecodeError` (line 125) and
\* `except (json.JSONDecodeError, AttributeError)` (line 136)
DecodeErrorCaught(exc) == exc \in {"JSONDecodeError", "AttributeError"}

\* extract_json_from_text (lines 109-140): what it raises ("" for nothing)
\* and the value it returns
ExtractJsonOutcome(text) ==
    IF LoadsKind(text) # "error" THEN [exc |-> "", value |-> JsonValue(text)]
    ELSE IF ~DecodeErrorCaught("JSONDecodeError")
    THEN [exc |-> "JSONDecodeError", value |-> JsonNone]
    ELSE IF BraceSpan(text) = "" THEN [exc |-> "", value |-> JsonNone]
    ELSE IF LoadsKind(BraceSpan(text)) # "error"
    THEN [exc |-> "", value |-> JsonValue(BraceSpan(text))]
    ELSE [exc |-> "", value |-> JsonNone]

\* extract_json_from_text as process_prompts uses it: the object returned,
\* JsonError for None
ExtractJsonFromText(text) ==
    IF Loads(text) # JsonError THEN Loads(text)
    ELSE IF BraceSpan(text) # "" THEN Loads(BraceSpan(text))
    ELSE JsonError

\* truth value of `if json_response:` (None and the empty dict are falsy)
Truthy(j) == j # JsonError /\ Members(j) # <<>>

\* the text process_prompts writes and records for a reply (lines 146-165)
FormattedResponse(response) ==
    IF Truthy(ExtractJsonFromText(response))
    THEN DumpsIndent2(ExtractJsonFromText(response))
    ELSE response

\* response_{prompt_id}_{prompt_hash}.json
ResponsePath(prompt_id, prompt_hash) == [id |-> prompt_id, hash |-> prompt_hash]

\* get_existing_responses: hash -> path; with several files of one hash the
\* file that glob lists last wins, and glob's order is the directory's
ExistingResponsesChoices(files) ==
    LET hs == {p.hash : p \in DOMAIN files} IN
    {e \in [hs -> DOMAIN files] : \A h \in hs : e[h].hash = h}

NoFile == [state |-> "absent", items |-> <<>>]
\* json.dump(self.summary, f, ensure_ascii=False, indent=2)
SummaryFile(summary) == [state |-> "json", items |-> summary]

RECURSIVE SeqsUpTo(_, _)
SeqsUpTo(S, n) ==
    IF n = 0 THEN {<<>>}
    ELSE LET shorter == SeqsUpTo(S, n - 1) IN
         shorter \cup {Append(s, x) : s \in {t \in shorter : Len(t) = n - 1}, x \in S}

(***************************************************************************)
(* Scoring (src/src/utils/evaluation_utils.py).  A flag is "true", "false" *)
(* or "null" (Python None).                                                *)
(***************************************************************************)
\* the object inside a one-element JSON array
ListHead(text) == CHOOSE j \in JsonVals : text = TxtList(j)

\* `isinstance(first_item, dict)` for the first element of a non-empty array
FirstItemIsDict(text) == \E j \in JsonVals : text = TxtList(j)

\* the loop over json_data.items() (lines 43-45): it compares the keys of
\* the reply object itself, never the fields of a value
ItemsScan(response) == Loads(response).has_command

\* an `except` clause that catches nothing
ExtractCaughtNothing(exc) == FALSE

\* `except Exception as e` (line 49)
ExtractCaught(exc) == exc \in {"JSONDecodeError"}

\* the body of the try block of extract_prediction (lines 23-48)
ExtractTry(response) ==
    LET kind == LoadsKind(response) IN
    CASE kind = "error" -> [exc |-> "JSONDecodeError", value |-> "false"]
      [] kind = "list" ->
           IF /\ response # TxtEmptyList
              /\ FirstItemIsDict(response)
              /\ ListHead(response).has_command # "absent"
           THEN [exc |-> "", value |-> ListHead(response).has_command]
           ELSE [exc |-> "", value |-> "false"]
      [] kind = "dict" ->
           IF Loads(response).has_command # "absent"
           THEN [exc |-> "", value |-> Loads(response).has_command]
           ELSE IF ItemsScan(response) # "absent"
           THEN [exc |-> "", value |-> ItemsScan(response)]
           ELSE [exc |-> "", value |-> "false"]
      [] OTHER -> [exc |-> "", value |-> "false"]

\* extract_prediction(response) (lines 14-51): what it raises and returns
ExtractOutcome(response) ==
    LET t == ExtractTry(response) IN
    IF t.exc # "" /\ ExtractCaught(t.exc) THEN [exc |-> "", value |-> "false"]
    ELSE t

ExtractPrediction(response) == ExtractOutcome(response).value

\* the key under which a dataset entry is indexed (line 161)
DialogKey(dialog) == Dumps([has_command |-> "absent", dialog |-> dialog])

\* an index in which the first entry of a dialogue stays
GtMapPutKeepsFirst(map, key, gt) ==
    IF \E i \in 1..Len(map) : map[i].key = key THEN map
    ELSE Append(map, [key |-> key, gt |-> gt])

\* gt_map[key] = value: a known key keeps its place in the dictionary
GtMapPut(map, key, gt) ==
    IF \E i \in 1..Len(map) : map[i].key = key
    THEN [i \in 1..Len(map) |->
            IF map[i].key = key THEN [key |-> key, gt |-> gt] ELSE map[i]]
    ELSE Append(map, [key |-> key, gt |-> gt])

\* gt_map after the first n entries of the dataset (lines 159-162)
RECURSIVE GtMapUpTo(_, _)
GtMapUpTo(dataset, n) ==
    IF n = 0 THEN <<>>
    ELSE LET item == dataset[n]
             before == GtMapUpTo(dataset, n - 1) IN
         IF item.dialog # "absent" /\ item.has_command # "absent"
         THEN GtMapPut(before, DialogKey(item.dialog), item.has_command)
         ELSE before

GtMap(dataset) == GtMapUpTo(dataset, Len(dataset))

\* a resolution that never looks into the prompt
EmbeddedFlagSkipped(prompt) == "null"

\* lines 184-191: the flag the prompt carries, None when it carries none or
\* when an exception was caught
EmbeddedFlag(prompt) ==
    IF LoadsKind(prompt) = "dict" /\ Loads(prompt).has_command # "absent"
    THEN Loads(prompt).has_command
    ELSE "null"

\* gt_map.get(prompt) (line 197)
ExactLookup(map, prompt) ==
    IF \E i \in 1..Len(map) : map[i].key = prompt
    THEN map[CHOOSE i \in 1..Len(map) : map[i].key = prompt].gt
    ELSE "null"

\* the entries of gt_map whose parsed dialog equals the prompt's (line 206)
StructuralMatches(map, prompt) ==
    IF LoadsKind(prompt) # "dict" THEN {}
    ELSE {i \in 1..Len(map) : Loads(map[i].key).dialog = Loads(prompt).dialog}

\* lines 202-211: the loop leaves at the first match
StructuralPick(matches) == CHOOSE i \in matches : \A k \in matches : i <= k

StructuralLookup(map, prompt) ==
    LET matches == StructuralMatches(map, prompt) IN
    IF matches = {} THEN "null" ELSE map[StructuralPick(matches)].gt

\* an index taken as it comes, without the shift to 0-based positions
DatasetIdxUnshifted(prompt_id) == prompt_id

\* `dataset_idx = prompt_id - 1` (line 219)
DatasetIdx(prompt_id) == prompt_id - 1

\* lines 216-226; dataset[k] of Python is dataset[k + 1] here
PositionalLookup(dataset, prompt_id) ==
    LET idx == DatasetIdx(prompt_id) IN
    IF dataset # <<>> /\ prompt_id <= Len(dataset)
       /\ 0 <= idx /\ idx < Len(dataset)
       /\ dataset[idx + 1].has_command # "absent"
    THEN dataset[idx + 1].has_command
    ELSE "null"

\* lines 236-243 and 254-257
Category(pred, gt) ==
    IF Truth(pred) /\ Truth(gt) THEN "TP"
    ELSE IF Truth(pred) /\ ~Truth(gt) THEN "FP"
    ELSE IF ~Truth(pred) /\ Truth(gt) THEN "FN"
    ELSE "TN"

\* lines 180-226: the ground truth found and the debug message that tells
\* where it was found; gt "null" when nothing resolved
GroundTruth(prompt, prompt_id, dataset) ==
    LET map == GtMap(dataset)
        e == EmbeddedFlag(prompt)
        x == IF e = "null" /\ map # <<>> THEN ExactLookup(map, prompt) ELSE "null"
        t == IF e = "null" /\ map # <<>> /\ x = "null"
             THEN StructuralLookup(map, prompt) ELSE "null"
        p == IF e = "null" /\ x = "null" /\ t = "null"
             THEN PositionalLookup(dataset, prompt_id) ELSE "null" IN
    CASE e # "null" -> [gt |-> e, source |-> "embedded"]
      [] x # "null" -> [gt |-> x, source |-> "exact"]
      [] t # "null" -> [gt |-> t, source |-> "structural"]
      [] p # "null" -> [gt |-> p, source |-> "positional"]
      [] OTHER -> [gt |-> "null", source |-> "default"]

\* a loop that scores a record without a prediction as a negative
SkipsRecordNever(pred) == FALSE

\* `if pred is None: continue` (lines 176-178)
SkipsRecord(pred) == pred = "null"

\* the fields lines 233-237 and 251-255 add to the item (the item keeps its
\* prompt and response, left out here)
Sample(prompt_id, pred, gt) ==
    [prompt_id |-> prompt_id, prediction |-> pred, ground_truth |-> gt,
     category |-> Category(pred, gt)]

\* a default that takes an unlabelled record for a command
DefaultGroundTruthTrue == "true"

\* `ground_truth.append(False)` (lines 249, 252)
DefaultGroundTruth == "false"

\* one iteration of the loop over the summary (lines 169-259)
ScoreRecord(st, item) ==
    LET pred == ExtractPrediction(item.response)
        g == GroundTruth(item.prompt, item.prompt_id, st.dataset)
        gt == IF g.gt = "null" THEN DefaultGroundTruth ELSE g.gt IN
    IF ExtractOutcome(item.response).exc # ""
    THEN [st EXCEPT !.pc = "raised", !.n = @ + 1, !.item = item]
    ELSE IF SkipsRecord(pred)
    THEN [st EXCEPT !.n = @ + 1, !.item = item, !.skipped = TRUE,
                    !.source = "none"]
    ELSE [st EXCEPT !.n = @ + 1, !.item = item, !.skipped = FALSE,
                    !.source = g.source,
                    !.resolved = IF g.source = "default" THEN @ ELSE @ + 1,
                    !.defaulted = IF g.source = "default" THEN @ + 1 ELSE @,
                    !.predictions = Append(@, pred),
                    !.ground_truth = Append(@, gt),
                    !.samples = Append(@, Sample(item.prompt_id, pred, gt))]

\* a matrix that counts a missed command as a false alarm and the reverse
MatrixCellSwapped(pred, gt) ==
    IF Truth(pred) /\ Truth(gt) THEN "TP"
    ELSE IF Truth(pred) /\ ~Truth(gt) THEN "FN"
    ELSE IF ~Truth(pred) /\ Truth(gt) THEN "FP"
    ELSE "TN"

\* the cell one (pred, gt) pair is counted in (lines 77-84)
MatrixCell(pred, gt) ==
    IF Truth(pred) /\ Truth(gt) THEN "TP"
    ELSE IF Truth(pred) /\ ~Truth(gt) THEN "FP"
    ELSE IF ~Truth(pred) /\ Truth(gt) THEN "FN"
    ELSE "TN"

\* compute_confusion_matrix (lines 54-92)
ComputeConfusionMatrix(predictions, ground_truth) ==
    LET Cell(c) == Cardinality({k \in 1..Len(predictions) :
                                  MatrixCell(predictions[k], ground_truth[k]) = c}) IN
    [TP |-> Cell("TP"), FP |-> Cell("FP"), TN |-> Cell("TN"), FN |-> Cell("FN")]

\* the rates are fractions in lowest terms (floats in the code)
RECURSIVE Gcd(_, _)
Gcd(a, b) == IF b = 0 THEN a ELSE Gcd(b, a % b)

Rat(n, d) ==
    IF n = 0 THEN [num |-> 0, den |-> 1]
    ELSE [num |-> n \div Gcd(n, d), den |-> d \div Gcd(n, d)]

RatZero == Rat(0, 1)
RatAdd(a, b) == Rat(a.num * b.den + b.num * a.den, a.den * b.den)
RatMul(a, b) == Rat(a.num * b.num, a.den * b.den)
RatDiv(a, b) == Rat(a.num * b.den, a.den * b.num)

\* a rate that is 1 when there is nothing to divide by
RatioOrOne(n, d) == IF d > 0 THEN Rat(n, d) ELSE Rat(1, 1)

\* `n / d if d > 0 else 0` (lines 111, 114, 117)
RatioOrZero(n, d) == IF d > 0 THEN Rat(n, d) ELSE RatZero

\* compute_metrics (lines 95-127)
ComputeMetrics(cm) ==
    LET total == cm.TP + cm.TN + cm.FP + cm.FN
        precision == RatioOrZero(cm.TP, cm.TP + cm.FP)
        recall == RatioOrZero(cm.TP, cm.TP + cm.FN)
        sum == RatAdd(precision, recall) IN
    [accuracy |-> RatioOrZero(cm.TP + cm.TN, total),
     precision |-> precision,
     recall |-> recall,
     f1 |-> IF sum.num > 0
            THEN RatDiv(RatMul(Rat(2, 1), RatMul(precision, recall)), sum)
            ELSE RatZero]

ZeroMatrix == [TP |-> 0, FP |-> 0, TN |-> 0, FN |-> 0]
ZeroMetrics ==
    [accuracy |-> RatZero, precision |-> RatZero, recall |-> RatZero, f1 |-> RatZero]

NoEvalResult ==
    [metrics |-> ZeroMetrics, confusion_matrix |-> ZeroMatrix,
     valid_samples |-> 0, total_samples |-> 0, samples |-> <<>>]

\* a result that counts as valid only the records with a resolved label
EvalResultResolvedOnly(st) ==
    IF st.predictions = <<>>
    THEN [metrics |-> ZeroMetrics, confusion_matrix |-> ZeroMatrix,
          valid_samples |-> 0, total_samples |-> st.n, samples |-> <<>>]
    ELSE LET cm == ComputeConfusionMatrix(st.predictions, st.ground_truth) IN
         [metrics |-> ComputeMetrics(cm), confusion_matrix |-> cm,
          valid_samples |-> st.resolved, total_samples |-> st.n,
          samples |-> st.samples]

\* lines 261-297: what evaluate_model_predictions returns
EvalResult(st) ==
    IF st.predictions = <<>>
    THEN [metrics |-> ZeroMetrics, confusion_matrix |-> ZeroMatrix,
          valid_samples |-> 0, total_samples |-> st.n, samples |-> <<>>]
    ELSE LET cm == ComputeConfusionMatrix(st.predictions, st.ground_truth) IN
         [metrics |-> ComputeMetrics(cm), confusion_matrix |-> cm,
          valid_samples |-> Len(st.samples), total_samples |-> st.n,
          samples |-> st.samples]

MaxRecords == 3         \* records of the summary that is scored
MaxDataset == 2         \* entries of the reference dataset

TxtKeyD == DialogKey("d")
TxtKeyE == DialogKey("e")
TxtKeyDIndented == DumpsIndent2([has_command |-> "absent", dialog |-> "d"])

\* prompts: the two dialogues as the dataset index writes them, one of them
\* written with other whitespace, dialogues that carry a flag, free text
EvalPrompts ==
    {TxtKeyD, TxtKeyE, TxtKeyDIndented,
     Dumps([has_command |-> "true", dialog |-> "d"]),
     Dumps([has_command |-> "false", dialog |-> "e"]),
     Dumps([has_command |-> "null", dialog |-> "d"]),
     TxtProse}

\* replies: a positive, a negative, a null flag, prose, an array
EvalResponses ==
    {TxtCmd, Dumps([has_command |-> "false", dialog |-> "absent"]),
     Dumps([has_command |-> "null", dialog |-> "absent"]), TxtProse,
     TxtList([has_command |-> "true", dialog |-> "absent"])}

DatasetEntries ==
    {j \in JsonVals : \/ j.dialog \in {"d", "e"} /\ j.has_command \in {"true", "false"}
                      \/ j.dialog = "d" /\ j.has_command = "null"
                      \/ j.dialog = "absent" /\ j.has_command = "true"}

\* no dataset file, or one that cannot be read, leaves the empty dataset
Datasets == SeqsUpTo(DatasetEntries, MaxDataset)

NoItem == [prompt_id |-> 0, prompt |-> "", response |-> ""]

\* dataset      the loaded reference dataset
\* n            records of the summary gone through
\* item, skipped, source   the latest record, whether it was left out, and
\*              the place its ground truth came from (the debug message)
StartEval(dataset) ==
    [pc |-> "loop", load |-> "none", dataset |-> dataset, n |-> 0, item |-> NoItem,
     skipped |-> FALSE, source |-> "none", resolved |-> 0, defaulted |-> 0,
     predictions |-> <<>>,
     ground_truth |-> <<>>, samples |-> <<>>, result |-> NoEvalResult]

\* the loop takes the next record of the summary; the records of a summary
\* come with growing prompt_id
EvalRecord(item) ==
    /\ ev.pc = "loop"
    /\ ev.n < MaxRecords
    /\ item.prompt_id > ev.item.prompt_id
    /\ ev' = ScoreRecord(ev, item)
    /\ UNCHANGED <<clientVars, batchVars, stream, probe>>

\* the summary is exhausted: the result is computed and returned
EvalReturn ==
    /\ ev.pc = "loop"
    /\ ev' = [ev EXCEPT !.pc = "returned", !.result = EvalResult(ev)]
    /\ UNCHANGED <<clientVars, batchVars, stream, probe>>

MaxCell == 3            \* largest count in a cell handed to compute_metrics

Matrices == [TP : 0..MaxCell, FP : 0..MaxCell, TN : 0..MaxCell, FN : 0..MaxCell]

\* a caller about to hand the matrix cm to compute_metrics
StartMetrics(cm) ==
    [StartEval(<<>>) EXCEPT !.pc = "metrics",
                            !.result = [NoEvalResult EXCEPT !.confusion_matrix = cm]]

\* compute_metrics(confusion_matrix) called on its own (lines 95-127)
ComputeMetricsCall ==
    /\ ev.pc = "metrics"
    /\ ev' = [ev EXCEPT !.pc = "metrics_done",
                        !.result.metrics = ComputeMetrics(ev.result.confusion_matrix)]
    /\ UNCHANGED <<clientVars, batchVars, stream, probe>>

(***************************************************************************)
(* PromptProcessorService (src/src/services/prompt_processor.py).          *)
(***************************************************************************)
MaxPrompts == 3         \* prompt lists of up to MaxPrompts items
MaxRuns == 2            \* process_prompts calls in one behaviour

\* the two contents are interchangeable: the lists that start with "a"
PromptLists == {p \in SeqsUpTo(Contents, MaxPrompts) : p = <<>> \/ p[1] = "a"}

\* __init__
NewService == [summary |-> <<>>, processed_ids |-> {}]

IdleRun ==
    [pc |-> "idle", i |-> 0, existing |-> <<>>, prompt_hash |-> "",
     response |-> "", output_file |-> ResponsePath(0, "")]

\* a record that leaves out what the response file holds
RecordWithoutResponse(prompt_id, prompt, response, output_file) ==
    [prompt_id |-> prompt_id, prompt |-> prompt, response |-> "",
     output_file |-> output_file]

Record(prompt_id, prompt, response, output_file) ==
    [prompt_id |-> prompt_id, prompt |-> prompt, response |-> response,
     output_file |-> output_file]

\* a save that writes nothing
SaveSummaryNever(c, summary, d) == d

\* _save_summary, under `if settings.save_summary`
SaveSummary(c, summary, d) ==
    IF c.save_summary THEN [d EXCEPT !.summary = SummaryFile(summary)] ELSE d

\* a checkpoint load that forgets to rebuild processed_ids
LoadedServiceNoIds(c, s, d) ==
    IF c.resume /\ d.summary.state = "json"
    THEN [summary |-> d.summary.items, processed_ids |-> {}]
    ELSE s

\* `item["prompt_id"]` does not raise KeyError
HasPromptId(item) == "prompt_id" \in DOMAIN item

\* lines 67-78: the summary in memory after the checkpoint is loaded.  A
\* file that does not parse leaves the service as it was (json.load raises
\* before the assignment); a file with an entry without prompt_id replaces
\* self.summary (line 72) and raises KeyError in the comprehension of line
\* 76, so that processed_ids stays as it was
LoadedService(c, s, d) ==
    IF c.resume /\ d.summary.state = "json"
    THEN IF \A k \in 1..Len(d.summary.items) : HasPromptId(d.summary.items[k])
         THEN [summary |-> d.summary.items,
               processed_ids |-> {d.summary.items[k].prompt_id :
                                     k \in 1..Len(d.summary.items)}]
         ELSE [summary |-> d.summary.items, processed_ids |-> s.processed_ids]
    ELSE s

\* runs       process_prompts calls started so far
\* called     prompt ids handed to generate in this run
\* failed     prompt ids whose every HTTP attempt failed in this run
\* appended   prompt ids for which this run appended a record
\* log        the calls and delays of this run, in order
\* reused     this run is on the service instance of the run before it
\* afterCrash this run follows a crashed run; completed: the prompt ids the
\*            crashed run had finished (appended or skipped as processed)
\* prev*      the run before this one ended normally, and what it left
\* io         the file operations that failed in this run, with the prompt
\*            id (0 for the final save)
NoObs ==
    [runs |-> 0, called |-> {}, failed |-> {}, appended |-> {}, log |-> <<>>,
     io |-> {},
     reused |-> FALSE, crashed |-> FALSE, afterCrash |-> FALSE, completed |-> {},
     prevDone |-> FALSE, prevSummary |-> <<>>, prevDisk |-> NoFile,
     prevProcessed |-> {}]

\* the caller builds a PromptProcessorService (fresh) or keeps the one it has,
\* and calls process_prompts; lines 52-79: directories, existing responses,
\* checkpoint
StartRun(resume, fresh, e) ==
    /\ run.pc \in {"idle", "done"}
    /\ obs.runs < MaxRuns
    /\ e \in ExistingResponsesChoices(disk.files)
    /\ LET c == [cfg EXCEPT !.resume = resume] IN
       /\ cfg' = c
       /\ svc' = LoadedService(c, IF fresh THEN NewService ELSE svc, disk)
       /\ run' = [IdleRun EXCEPT !.pc = "loop",
                                 !.existing = IF resume THEN e ELSE <<>>]
       /\ obs' = [obs EXCEPT !.runs = @ + 1, !.called = {}, !.failed = {},
                             !.appended = {}, !.log = <<>>, !.io = {},
                             !.reused = (~fresh /\ run.pc = "done"),
                             !.crashed = FALSE,
                             !.afterCrash = obs.crashed,
                             !.completed = IF obs.crashed THEN @ ELSE {},
                             !.prevDone = (run.pc = "done"),
                             !.prevSummary = svc.summary,
                             !.prevDisk = disk.summary,
                             !.prevProcessed = svc.processed_ids]
    /\ UNCHANGED <<prompts, disk, result, gen, agen, net, stream, otherVars>>

PromptId == run.i + 1
Prompt == prompts[PromptId]
InLoop == run.pc = "loop" /\ run.i < Len(prompts)

\* lines 84-87: SKIPPED_RESUMED
SkipResumed ==
    /\ InLoop
    /\ cfg.resume /\ PromptId \in svc.processed_ids
    /\ run' = [run EXCEPT !.i = @ + 1]
    /\ UNCHANGED <<prompts, cfg, svc, disk, result, obs, gen, agen, net, stream, otherVars>>

\* lines 94-116: SKIPPED_CACHED
SkipCached ==
    /\ InLoop
    /\ ~(cfg.resume /\ PromptId \in svc.processed_ids)
    /\ cfg.resume /\ ComputePromptHash(Prompt) \in DOMAIN run.existing
    /\ LET path == run.existing[ComputePromptHash(Prompt)]
           rec == Record(PromptId, Prompt, disk.files[path], path) IN
       /\ svc' = [summary |-> Append(svc.summary, rec),
                  processed_ids |-> svc.processed_ids \cup {PromptId}]
       /\ disk' = SaveSummary(cfg, svc'.summary, disk)
       /\ obs' = [obs EXCEPT !.appended = @ \cup {PromptId}]
    /\ run' = [run EXCEPT !.i = @ + 1]
    /\ UNCHANGED <<prompts, cfg, result, gen, agen, net, stream, otherVars>>

\* generate run to its end against the transport outcomes of `script`
RECURSIVE RunGenerate(_, _)
RunGenerate(c, script) ==
    IF c.pc # "loop" THEN c
    ELSE LET o == IF c.attempt < Len(script) THEN script[c.attempt + 1]
                  ELSE Outcome("unset", "") IN
         \* the state after the iteration is worked out once, then handed on
         CHOOSE r \in {RunGenerate(after, script) :
                          after \in {GenerateIteration(c, o)}} : TRUE

AllAttemptsFailed(c, script) ==
    /\ c.requests # <<>>
    /\ \A k \in 1..Len(c.requests) : ~Is2xx(script[k])

\* full_response.get("message", {}).get("content", "") / the returned text
ResponseText(ret) ==
    IF ret.kind = "text" THEN ret.text
    ELSE IF ret.kind = "body" /\ ret.body.kind = "ok" THEN ret.body.content
    ELSE ""

\* lines 120-145 and 186-188: CALLING.  generate is called with its default
\* retry_count and retry_delay; when it returns, the raw reply is saved under
\* save_raw_response; when it raises, the item is FAILED and the loop goes on
CallStep(script) ==
    /\ InLoop
    /\ ~(cfg.resume /\ PromptId \in svc.processed_ids)
    /\ ~(cfg.resume /\ ComputePromptHash(Prompt) \in DOMAIN run.existing)
    /\ LET h == ComputePromptHash(Prompt)
           c == RunGenerate(StartGenerate("m", Prompt, "sys", cfg.save_raw, 0,
                                          DefaultRetryCount, DefaultRetryDelay),
                            script)
           failed == IF AllAttemptsFailed(c, script)
                     THEN obs.failed \cup {PromptId} ELSE obs.failed IN
       /\ obs' = [obs EXCEPT !.called = @ \cup {PromptId},
                             !.log = Append(@, "call"),
                             !.failed = failed]
       /\ IF c.pc = "returned"
          THEN /\ run' = [run EXCEPT !.pc = "got_reply", !.prompt_hash = h,
                                     !.response = ResponseText(c.ret)]
               /\ disk' = IF cfg.save_raw
                          THEN [disk EXCEPT !.raw = @ \cup
                                   {[id |-> PromptId, hash |-> h,
                                     kind |-> c.ret.kind]}]
                          ELSE disk
          ELSE /\ run' = [run EXCEPT !.i = @ + 1]
               /\ disk' = disk
    /\ UNCHANGED <<prompts, cfg, svc, result, agen, net, stream, otherVars>>

CallClient(script) == CallStep(script) /\ UNCHANGED gen

\* the same step, keeping the finished generate call in view
CallClientTraced(script) ==
    /\ CallStep(script)
    /\ gen' = RunGenerate(StartGenerate("m", Prompt, "sys", cfg.save_raw, 0,
                                        DefaultRetryCount, DefaultRetryDelay),
                          script)

\* a write of the reply as it came, formatted or not
ArtifactTextRaw(response) == response

\* lines 159-165: the text written to the response file
ArtifactText(response) ==
    IF Truthy(ExtractJsonFromText(response))
    THEN FormattedResponse(response)
    ELSE response

\* lines 146-167: the response file is written
WriteArtifact ==
    /\ run.pc = "got_reply"
    /\ LET path == ResponsePath(PromptId, run.prompt_hash) IN
       /\ disk' = [disk EXCEPT !.files =
                      (path :> ArtifactText(run.response)) @@ @]
       /\ run' = [run EXCEPT !.pc = "written", !.output_file = path]
    /\ UNCHANGED <<prompts, cfg, svc, result, obs, gen, agen, net, stream, otherVars>>

\* lines 169-176: the record is appended
AppendRecord ==
    /\ run.pc = "written"
    /\ svc' = [summary |-> Append(svc.summary,
                   Record(PromptId, Prompt, FormattedResponse(run.response),
                          run.output_file)),
               processed_ids |-> svc.processed_ids \cup {PromptId}]
    /\ run' = [run EXCEPT !.pc = "appended"]
    /\ obs' = [obs EXCEPT !.appended = @ \cup {PromptId}]
    /\ UNCHANGED <<prompts, cfg, disk, result, gen, agen, net, stream, otherVars>>

\* `if i < len(prompts) - 1: time.sleep(settings.delay)`
DelayAfter(i, n) == i < n - 1

\* lines 178-184: the summary is saved, then the delay
SaveAfterAppend ==
    /\ run.pc = "appended"
    /\ disk' = SaveSummary(cfg, svc.summary, disk)
    /\ obs' = [obs EXCEPT !.log = IF DelayAfter(run.i, Len(prompts))
                                  THEN Append(@, "sleep") ELSE @]
    /\ run' = [IdleRun EXCEPT !.pc = "loop", !.i = run.i + 1,
                              !.existing = run.existing]
    /\ UNCHANGED <<prompts, cfg, svc, result, gen, agen, net, stream, otherVars>>

\* lines 190-200: the final save and the returned counts
FinishRun ==
    /\ run.pc = "loop" /\ run.i = Len(prompts)
    /\ disk' = IF svc.summary # <<>> THEN SaveSummary(cfg, svc.summary, disk)
               ELSE disk
    /\ result' = [processed_count |-> Cardinality(svc.processed_ids),
                  total_count |-> Len(prompts)]
    /\ run' = [IdleRun EXCEPT !.pc = "done"]
    /\ UNCHANGED <<prompts, cfg, svc, obs, gen, agen, net, stream, otherVars>>

\* the process dies; everything in memory is lost, the directory stays
Crash ==
    /\ run.pc \notin {"idle", "done"}
    /\ obs.runs < MaxRuns
    /\ run' = IdleRun
    /\ svc' = NewService
    /\ obs' = [NoObs EXCEPT !.runs = obs.runs, !.crashed = TRUE,
                            !.completed = obs.appended \cup
                                (IF cfg.resume THEN {k \in 1..run.i :
                                    k \in svc.processed_ids} ELSE {})]
    /\ UNCHANGED <<prompts, cfg, disk, result, gen, agen, net, stream, otherVars>>

(***************************************************************************)
(* File operations that fail.                                              *)
(***************************************************************************)
IoFailed(kind, prompt_id) == [kind |-> kind, id |-> prompt_id]

\* a read failure that ends the item: it is counted as failed and no call
\* is made
ReadFailsThenFailed(script) ==
    /\ InLoop
    /\ ~(cfg.resume /\ PromptId \in svc.processed_ids)
    /\ cfg.resume /\ ComputePromptHash(Prompt) \in DOMAIN run.existing
    /\ obs' = [obs EXCEPT !.failed = @ \cup {PromptId},
                          !.io = @ \cup {IoFailed("read", PromptId)}]
    /\ run' = [run EXCEPT !.i = @ + 1]
    /\ UNCHANGED <<prompts, cfg, svc, disk, result, gen, agen, net, stream, otherVars>>

\* lines 94-118 and 120-145: the response file of the fingerprint cannot be
\* read; the exception is logged (line 118) and the item goes on to the call
ReadFailsThenCall(script) ==
    /\ InLoop
    /\ ~(cfg.resume /\ PromptId \in svc.processed_ids)
    /\ cfg.resume /\ ComputePromptHash(Prompt) \in DOMAIN run.existing
    /\ LET h == ComputePromptHash(Prompt)
           c == RunGenerate(StartGenerate("m", Prompt, "sys", cfg.save_raw, 0,
                                          DefaultRetryCount, DefaultRetryDelay),
                            script)
           failed == IF AllAttemptsFailed(c, script)
                     THEN obs.failed \cup {PromptId} ELSE obs.failed IN
       /\ obs' = [obs EXCEPT !.called = @ \cup {PromptId},
                             !.log = Append(@, "call"),
                             !.failed = failed,
                             !.io = @ \cup {IoFailed("read", PromptId)}]
       /\ IF c.pc = "returned"
          THEN /\ run' = [run EXCEPT !.pc = "got_reply", !.prompt_hash = h,
                                     !.response = ResponseText(c.ret)]
               /\ disk' = IF cfg.save_raw
                          THEN [disk EXCEPT !.raw = @ \cup
                                   {[id |-> PromptId, hash |-> h,
                                     kind |-> c.ret.kind]}]
                          ELSE disk
          ELSE /\ run' = [run EXCEPT !.i = @ + 1]
               /\ disk' = disk
    /\ UNCHANGED <<prompts, cfg, svc, result, gen, agen, net, stream, otherVars>>

\* lines 94-116 with a _save_summary that fails: the exception is logged
\* inside _save_summary (lines 212-213), summary.json keeps what it held
SkipCachedSaveFails ==
    /\ InLoop
    /\ ~(cfg.resume /\ PromptId \in svc.processed_ids)
    /\ cfg.resume /\ ComputePromptHash(Prompt) \in DOMAIN run.existing
    /\ cfg.save_summary
    /\ LET path == run.existing[ComputePromptHash(Prompt)]
           rec == Record(PromptId, Prompt, disk.files[path], path) IN
       /\ svc' = [summary |-> Append(svc.summary, rec),
                  processed_ids |-> svc.processed_ids \cup {PromptId}]
       /\ obs' = [obs EXCEPT !.appended = @ \cup {PromptId},
                             !.io = @ \cup {IoFailed("summary", PromptId)}]
    /\ run' = [run EXCEPT !.i = @ + 1]
    /\ UNCHANGED <<prompts, cfg, disk, result, gen, agen, net, stream, otherVars>>

\* lines 156-162 and 186-188: writing the response file fails; `open` may
\* have created the file before the failure (truncated: an empty file is
\* left); the exception is logged and the loop goes on with the next item
WriteArtifactFails(truncated) ==
    /\ run.pc = "got_reply"
    /\ LET path == ResponsePath(PromptId, run.prompt_hash) IN
       disk' = IF truncated THEN [disk EXCEPT !.files = (path :> "") @@ @]
               ELSE disk
    /\ obs' = [obs EXCEPT !.io = @ \cup {IoFailed("artifact", PromptId)}]
    /\ run' = [IdleRun EXCEPT !.pc = "loop", !.i = run.i + 1,
                              !.existing = run.existing]
    /\ UNCHANGED <<prompts, cfg, svc, result, gen, agen, net, stream, otherVars>>

\* lines 178-184 with a _save_summary that fails (lines 212-213)
SaveAfterAppendFails ==
    /\ run.pc = "appended"
    /\ cfg.save_summary
    /\ obs' = [obs EXCEPT !.log = IF DelayAfter(run.i, Len(prompts))
                                  THEN Append(@, "sleep") ELSE @,
                          !.io = @ \cup {IoFailed("summary", PromptId)}]
    /\ run' = [IdleRun EXCEPT !.pc = "loop", !.i = run.i + 1,
                              !.existing = run.existing]
    /\ UNCHANGED <<prompts, cfg, svc, disk, result, gen, agen, net, stream, otherVars>>

\* lines 190-200 with a final _save_summary that fails
FinishRunSaveFails ==
    /\ run.pc = "loop" /\ run.i = Len(prompts)
    /\ cfg.save_summary /\ svc.summary # <<>>
    /\ result' = [processed_count |-> Cardinality(svc.processed_ids),
                  total_count |-> Len(prompts)]
    /\ obs' = [obs EXCEPT !.io = @ \cup {IoFailed("summary", 0)}]
    /\ run' = [IdleRun EXCEPT !.pc = "done"]
    /\ UNCHANGED <<prompts, cfg, svc, disk, gen, agen, net, stream, otherVars>>

BatchOutcomes ==
    {Outcome("ok", TxtCmd), Outcome("ok", TxtProse), Outcome("conn_error", "")}

BatchScripts == [1..DefaultRetryCount -> BatchOutcomes]

Init ==
    /\ InitClient
    /\ prompts \in PromptLists
    /\ cfg \in [resume : {TRUE}, save_summary : BOOLEAN, save_raw : BOOLEAN]
    /\ svc = NewService
    /\ run = IdleRun
    /\ disk = [summary |-> NoFile, files |-> <<>>, raw |-> {}]
    /\ result = [processed_count |-> 0, total_count |-> 0]
    /\ obs = NoObs
    /\ stream = IdleStream
    /\ probe = IdleProbe
    /\ ev = IdleEval

Next ==
    \/ \E r \in BOOLEAN, f \in BOOLEAN,
          e \in ExistingResponsesChoices(disk.files) : StartRun(r, f, e)
    \/ SkipResumed
    \/ SkipCached
    \/ \E script \in BatchScripts : CallClient(script)
    \/ WriteArtifact
    \/ AppendRecord
    \/ SaveAfterAppend
    \/ FinishRun
    \/ Crash

Spec == Init /\ [][Next]_vars

(***************************************************************************)
(* The batch processor on a directory whose files may fail to be read or   *)
(* written.                                                                *)
(***************************************************************************)
MaxPromptsIO == 2       \* items of the prompt list when files may fail

InitIO ==
    /\ InitClient
    /\ prompts \in {p \in PromptLists : Len(p) \in 1..MaxPromptsIO}
    /\ cfg \in [resume : {TRUE}, save_summary : {TRUE}, save_raw : {FALSE}]
    /\ svc = NewService
    /\ run = IdleRun
    /\ disk = [summary |-> NoFile, files |-> <<>>, raw |-> {}]
    /\ result = [processed_count |-> 0, total_count |-> 0]
    /\ obs = NoObs
    /\ stream = IdleStream
    /\ probe = IdleProbe
    /\ ev = IdleEval

NextIO ==
    \/ \E r \in BOOLEAN,
          e \in ExistingResponsesChoices(disk.files) : StartRun(r, TRUE, e)
    \/ SkipResumed
    \/ SkipCached
    \/ SkipCachedSaveFails
    \/ \E script \in BatchScripts : CallClient(script)
    \/ \E script \in BatchScripts : ReadFailsThenCall(script)
    \/ WriteArtifact
    \/ \E truncated \in BOOLEAN : WriteArtifactFails(truncated)
    \/ AppendRecord
    \/ SaveAfterAppend
    \/ SaveAfterAppendFails
    \/ FinishRun
    \/ FinishRunSaveFails

SpecIO == InitIO /\ [][NextIO]_vars

(***************************************************************************)
(* The batch processor run to its end: no step of a run is left undone     *)
(* (the loop is sequential code whose every call returns or raises), and   *)
(* the generate call of each item stays in view.                           *)
(***************************************************************************)
MaxPromptsBounded == 2  \* items of the prompt list in the runs that must end

InitBounded ==
    /\ InitClient
    /\ prompts \in {p \in PromptLists : Len(p) <= MaxPromptsBounded}
    /\ cfg \in [resume : {TRUE}, save_summary : BOOLEAN, save_raw : BOOLEAN]
    /\ svc = NewService
    /\ run = IdleRun
    /\ disk = [summary |-> NoFile, files |-> <<>>, raw |-> {}]
    /\ result = [processed_count |-> 0, total_count |-> 0]
    /\ obs = NoObs
    /\ stream = IdleStream
    /\ probe = IdleProbe
    /\ ev = IdleEval

\* the steps of a started run
RunStep ==
    \/ SkipResumed
    \/ SkipCached
    \/ \E script \in BatchScripts : CallClientTraced(script)
    \/ WriteArtifact
    \/ AppendRecord
    \/ SaveAfterAppend
    \/ FinishRun

NextBounded ==
    \/ \E r \in BOOLEAN, f \in BOOLEAN,
          e \in ExistingResponsesChoices(disk.files) : StartRun(r, f, e)
    \/ RunStep

SpecBounded == InitBounded /\ [][NextBounded]_vars /\ WF_vars(RunStep)

(***************************************************************************)
(* The batch processor started on a directory that already holds a         *)
(* summary.json it did not write in this behaviour.                        *)
(***************************************************************************)
MaxPromptsCheckpoint == 2   \* items of the prompt list when a summary file is found

\* an entry without prompt_id
RecordWithoutId(prompt, response) ==
    [prompt |-> prompt, response |-> response, output_file |-> ResponsePath(0, "")]

GarbageFile == [state |-> "garbage", items |-> <<>>]

\* the summary.json found: none, one that does not parse, well-formed ones,
\* ones with an entry without prompt_id
FoundSummaries ==
    {NoFile, GarbageFile,
     SummaryFile(<<Record(1, "a", TxtCmd, ResponsePath(1, ComputePromptHash("a")))>>),
     SummaryFile(<<Record(2, "b", TxtProse, ResponsePath(2, ComputePromptHash("b")))>>),
     SummaryFile(<<RecordWithoutId("a", TxtCmd)>>),
     SummaryFile(<<Record(1, "a", TxtCmd, ResponsePath(1, ComputePromptHash("a"))),
                   RecordWithoutId("b", TxtProse)>>)}

InitCheckpoint ==
    /\ InitClient
    /\ prompts \in {p \in PromptLists : Len(p) \in 1..MaxPromptsCheckpoint}
    /\ cfg \in [resume : {TRUE}, save_summary : BOOLEAN, save_raw : {FALSE}]
    /\ svc = NewService
    /\ run = IdleRun
    /\ \E f \in FoundSummaries : disk = [summary |-> f, files |-> <<>>, raw |-> {}]
    /\ result = [processed_count |-> 0, total_count |-> 0]
    /\ obs = NoObs
    /\ stream = IdleStream
    /\ probe = IdleProbe
    /\ ev = IdleEval

NextCheckpoint ==
    \/ \E r \in BOOLEAN, f \in BOOLEAN,
          e \in ExistingResponsesChoices(disk.files) : StartRun(r, f, e)
    \/ SkipResumed
    \/ SkipCached
    \/ \E script \in BatchScripts : CallClient(script)
    \/ WriteArtifact
    \/ AppendRecord
    \/ SaveAfterAppend
    \/ FinishRun

SpecCheckpoint == InitCheckpoint /\ [][NextCheckpoint]_vars

(***************************************************************************)
(* The batch processor called on one output directory with a prompt list   *)
(* that differs from the list of the run before.                           *)
(***************************************************************************)
\* between two runs the caller takes another prompt list
NewPromptList(p) ==
    /\ run.pc = "done"
    /\ obs.runs < MaxRuns
    /\ p # prompts
    /\ prompts' = p
    /\ UNCHANGED <<cfg, svc, run, disk, result, obs, gen, agen, net, stream, otherVars>>

InitLists ==
    /\ InitClient
    /\ prompts \in PromptLists
    /\ cfg \in [resume : {TRUE}, save_summary : {TRUE}, save_raw : {FALSE}]
    /\ svc = NewService
    /\ run = IdleRun
    /\ disk = [summary |-> NoFile, files |-> <<>>, raw |-> {}]
    /\ result = [processed_count |-> 0, total_count |-> 0]
    /\ obs = NoObs
    /\ stream = IdleStream
    /\ probe = IdleProbe
    /\ ev = IdleEval

NextLists ==
    \/ \E r \in BOOLEAN, f \in BOOLEAN,
          e \in ExistingResponsesChoices(disk.files) : StartRun(r, f, e)
    \/ \E p \in PromptLists : NewPromptList(p)
    \/ SkipResumed
    \/ SkipCached
    \/ \E script \in BatchScripts : CallClient(script)
    \/ WriteArtifact
    \/ AppendRecord
    \/ SaveAfterAppend
    \/ FinishRun

SpecLists == InitLists /\ [][NextLists]_vars

(***************************************************************************)
(* compute_prompt_hash called for items of runs in successive processes.   *)
(***************************************************************************)
MaxHashCalls == 3       \* calls of compute_prompt_hash in one behaviour
MaxProcesses == 2       \* processes started one after the other

HashContents == {"", "a", "b", "c"}

HashCall(content, prompt_id) ==
    /\ ev.pc = "hash"
    /\ Len(ev.calls) < MaxHashCalls
    /\ ev' = [ev EXCEPT !.calls =
                 Append(@, [content |-> content, prompt_id |-> prompt_id,
                            process |-> ev.process,
                            out |-> PromptHashAt(content, prompt_id, ev.process)])]
    /\ UNCHANGED <<clientVars, batchVars, stream, probe>>

\* the program is started again
RestartProcess ==
    /\ ev.pc = "hash"
    /\ ev.process < MaxProcesses
    /\ ev' = [ev EXCEPT !.process = @ + 1]
    /\ UNCHANGED <<clientVars, batchVars, stream, probe>>

InitHash ==
    /\ InitClient
    /\ prompts = <<>>
    /\ cfg = [resume |-> TRUE, save_summary |-> TRUE, save_raw |-> FALSE]
    /\ svc = NewService
    /\ run = IdleRun
    /\ disk = [summary |-> NoFile, files |-> <<>>, raw |-> {}]
    /\ result = [processed_count |-> 0, total_count |-> 0]
    /\ obs = NoObs
    /\ stream = IdleStream
    /\ probe = IdleProbe
    /\ ev = [pc |-> "hash", process |-> 1, calls |-> <<>>]

NextHash ==
    \/ \E c \in HashContents, id \in 1..MaxPrompts : HashCall(c, id)
    \/ RestartProcess

SpecHash == InitHash /\ [][NextHash]_vars

(***************************************************************************)
(* The JSON helpers of file_utils.py called on texts, values and paths.    *)
(***************************************************************************)
MaxJsonCalls == 3       \* calls of the helpers in one behaviour

\* prose without braces around a body
ProsePrefixes == {"", "Sure: "}
ProseSuffixes == {"", " ok"}
\* bodies: objects in both layouts, an object inside an object, an array of
\* an object, a truncated object, braces the wrong way round, two objects
\* side by side, no braces at all
JsonBodies ==
    {Dumps(j) : j \in {[has_command |-> "true", dialog |-> "absent"],
                       [has_command |-> "false", dialog |-> "d"], NoJson}}
    \cup {DumpsIndent2([has_command |-> "false", dialog |-> "d"]),
          TxtNested([has_command |-> "true", dialog |-> "absent"]),
          TxtList([has_command |-> "true", dialog |-> "absent"]),
          TxtTruncated, "} {", TxtCmd \o " and " \o TxtCmd,
          TxtJsonNumber, TxtJsonNull, TxtJsonString, TxtListOfNumber, TxtProse, ""}
JsonTexts == {pre \o body \o post :
                pre \in ProsePrefixes, body \in JsonBodies, post \in ProseSuffixes}

\* a path: its directory part ("" for a bare file name) and its file name
JsonPaths == [dir : {"", "out", "ro"}, name : {"a.json"}]
\* the directory can be created and written to ("" is the working directory)
Writable(path) == path.dir \in {"", "out"}

FileAbsent == [state |-> "absent", text |-> ""]
FileGarbage == [state |-> "text", text |-> TxtTruncated]
FileOf(text) == [state |-> "text", text |-> text]

\* os.makedirs(os.path.dirname(file_path), exist_ok=True) (line 99): the
\* exception it raises; makedirs('') raises FileNotFoundError
MakedirsExc(path) ==
    IF path.dir = "" THEN "FileNotFoundError"
    ELSE IF Writable(path) THEN "" ELSE "PermissionError"

\* save_json_file(file_path, data) (lines 86-106): what it returns and the
\* file afterwards
SaveJsonFile(path, data, file) ==
    IF MakedirsExc(path) # "" THEN [ret |-> FALSE, file |-> file]
    ELSE [ret |-> TRUE, file |-> FileOf(DumpsIndent2(data))]

\* load_json_file(file_path, default) (lines 60-83)
LoadJsonFile(file, default) ==
    IF file.state = "absent" THEN default
    ELSE IF LoadsKind(file.text) = "error" THEN default
    ELSE JsonValue(file.text)

JsonData == {[has_command |-> "true", dialog |-> "absent"],
             [has_command |-> "false", dialog |-> "d"], NoJson}
JsonDefaults == {JsonNone, JsonValue(TxtCmd)}

NoJsonCall == [op |-> "none", text |-> "", path |-> [dir |-> "", name |-> ""],
               default |-> JsonNone, exc |-> "", value |-> JsonNone, ret |-> FALSE]

ExtractJsonCall(text) ==
    /\ ev.pc = "json"
    /\ ev.n < MaxJsonCalls
    /\ ev' = [ev EXCEPT !.n = @ + 1,
                        !.last = [NoJsonCall EXCEPT
                                     !.op = "extract", !.text = text,
                                     !.exc = ExtractJsonOutcome(text).exc,
                                     !.value = ExtractJsonOutcome(text).value]]
    /\ UNCHANGED <<clientVars, batchVars, stream, probe>>

SaveJsonCall(path, data) ==
    /\ ev.pc = "json"
    /\ ev.n < MaxJsonCalls
    /\ LET out == SaveJsonFile(path, data, ev.files[path]) IN
       ev' = [ev EXCEPT !.n = @ + 1,
                        !.files[path] = out.file,
                        !.saved[path] = IF out.ret THEN JsonValue(Dumps(data)) ELSE @,
                        !.last = [NoJsonCall EXCEPT
                                     !.op = "save", !.path = path,
                                     !.value = JsonValue(Dumps(data)),
                                     !.ret = out.ret]]
    /\ UNCHANGED <<clientVars, batchVars, stream, probe>>

LoadJsonCall(path, default) ==
    /\ ev.pc = "json"
    /\ ev.n < MaxJsonCalls
    /\ ev' = [ev EXCEPT !.n = @ + 1,
                        !.last = [NoJsonCall EXCEPT
                                     !.op = "load", !.path = path,
                                     !.default = default,
                                     !.value = LoadJsonFile(ev.files[path], default)]]
    /\ UNCHANGED <<clientVars, batchVars, stream, probe>>

InitJson ==
    /\ InitClient
    /\ prompts = <<>>
    /\ cfg = [resume |-> TRUE, save_summary |-> TRUE, save_raw |-> FALSE]
    /\ svc = NewService
    /\ run = IdleRun
    /\ disk = [summary |-> NoFile, files |-> <<>>, raw |-> {}]
    /\ result = [processed_count |-> 0, total_count |-> 0]
    /\ obs = NoObs
    /\ stream = IdleStream
    /\ probe = IdleProbe
    /\ \E files \in [JsonPaths -> {FileAbsent, FileGarbage}] :
          ev = [pc |-> "json", n |-> 0, files |-> files,
                saved |-> [p \in JsonPaths |-> JsonNone], last |-> NoJsonCall]

NextJson ==
    \/ \E text \in JsonTexts : ExtractJsonCall(text)
    \/ \E path \in JsonPaths, data \in JsonData : SaveJsonCall(path, data)
    \/ \E path \in JsonPaths, default \in JsonDefaults : LoadJsonCall(path, default)

SpecJson == InitJson /\ [][NextJson]_vars

(***************************************************************************)
(* The aiohttp session of one OllamaClient used by coroutines that         *)
(* interleave at their awaits (client.py lines 41-73, 257, 357).           *)
(***************************************************************************)
MaxSessions == 3        \* sessions one client creates in one behaviour
MaxCloses == 2          \* close_session calls in one behaviour

\* ref       self._session: 0 for None, else the number of the session
\* sessions  the sessions created so far: "open" or "closed"
\* closing   close_session coroutines suspended at `await self._session.close()`
\* closes    close_session calls started so far
\* holds     the session a running generate_async / generate_stream got from
\*           get_session (0: no such coroutine is running)
\* last      the step taken last
IdleSessions ==
    [pc |-> "session", ref |-> 0, sessions |-> <<>>, closing |-> 0, closes |-> 0,
     holds |-> [async |-> 0, stream |-> 0], last |-> "init"]

\* `self._session is None or self._session.closed` (line 47)
NeedsSession(st) == IF st.ref = 0 THEN TRUE ELSE st.sessions[st.ref] = "closed"

\* get_session (lines 41-49): no await inside, it runs in one step
GetSessionIn(st) ==
    IF NeedsSession(st)
    THEN [st EXCEPT !.sessions = Append(@, "open"), !.ref = Len(st.sessions) + 1]
    ELSE st

\* `self._session and not self._session.closed` (line 53)
HasOpenSession(st) == IF st.ref = 0 THEN FALSE ELSE st.sessions[st.ref] = "open"

\* `await client.get_session()` on its own, and __aenter__ (line 67)
GetSession ==
    /\ ev.pc = "session"
    /\ NeedsSession(ev)
    /\ Len(ev.sessions) < MaxSessions
    /\ ev' = [GetSessionIn(ev) EXCEPT !.last = "get_session"]
    /\ UNCHANGED <<clientVars, batchVars, stream, probe>>

\* generate_async (line 257) or generate_stream (line 357) takes the session
\* and goes on to its request
RequestStart(mode) ==
    /\ ev.pc = "session"
    /\ ev.holds[mode] = 0
    /\ NeedsSession(ev) => Len(ev.sessions) < MaxSessions
    /\ ev' = [GetSessionIn(ev) EXCEPT !.holds[mode] = GetSessionIn(ev).ref,
                                      !.last = "request"]
    /\ UNCHANGED <<clientVars, batchVars, stream, probe>>

\* the request of the coroutine ends (reply, error or closed session)
RequestEnd(mode) ==
    /\ ev.pc = "session"
    /\ ev.holds[mode] # 0
    /\ ev' = [ev EXCEPT !.holds[mode] = 0, !.last = "request_end"]
    /\ UNCHANGED <<clientVars, batchVars, stream, probe>>

\* close_session and __aexit__ up to the await of line 54: the session is
\* marked closed when close() is entered, and the coroutine is suspended
CloseSessionBegin ==
    /\ ev.pc = "session"
    /\ ev.closes < MaxCloses
    /\ HasOpenSession(ev)
    /\ ev' = [ev EXCEPT !.sessions[ev.ref] = "closed", !.closing = @ + 1,
                        !.closes = @ + 1, !.last = "close_begin"]
    /\ UNCHANGED <<clientVars, batchVars, stream, probe>>

\* the suspended close_session resumes: `self._session = None` (line 55)
CloseSessionEnd ==
    /\ ev.pc = "session"
    /\ ev.closing > 0
    /\ ev' = [ev EXCEPT !.ref = 0, !.closing = @ - 1, !.last = "close_end"]
    /\ UNCHANGED <<clientVars, batchVars, stream, probe>>

\* close_session when close() completes without suspending, and
\* close_session with no open session (nothing is done)
CloseSessionAtOnce ==
    /\ ev.pc = "session"
    /\ ev.closes < MaxCloses
    /\ ev' = IF HasOpenSession(ev)
             THEN [ev EXCEPT !.sessions[ev.ref] = "closed", !.ref = 0,
                             !.closes = @ + 1, !.last = "close_end"]
             ELSE [ev EXCEPT !.closes = @ + 1, !.last = "close_end"]
    /\ UNCHANGED <<clientVars, batchVars, stream, probe>>

InitSessions ==
    /\ InitClient
    /\ prompts = <<>>
    /\ cfg = [resume |-> TRUE, save_summary |-> TRUE, save_raw |-> FALSE]
    /\ svc = NewService
    /\ run = IdleRun
    /\ disk = [summary |-> NoFile, files |-> <<>>, raw |-> {}]
    /\ result = [processed_count |-> 0, total_count |-> 0]
    /\ obs = NoObs
    /\ stream = IdleStream
    /\ probe = IdleProbe
    /\ ev = IdleSessions

NextSessions ==
    \/ GetSession
    \/ \E mode \in {"async", "stream"} : RequestStart(mode)
    \/ \E mode \in {"async", "stream"} : RequestEnd(mode)
    \/ CloseSessionBegin
    \/ CloseSessionEnd
    \/ CloseSessionAtOnce

SpecSessions == InitSessions /\ [][NextSessions]_vars

(***************************************************************************)
(* The client on its own: calls with every argument combination.           *)
(***************************************************************************)
InitClientOnly ==
    /\ InitClient
    /\ prompts = <<>>
    /\ cfg = [resume |-> TRUE, save_summary |-> TRUE, save_raw |-> FALSE]
    /\ svc = NewService
    /\ run = IdleRun
    /\ disk = [summary |-> NoFile, files |-> <<>>, raw |-> {}]
    /\ result = [processed_count |-> 0, total_count |-> 0]
    /\ obs = NoObs
    /\ stream = IdleStream
    /\ probe = IdleProbe
    /\ ev = IdleEval

SpecClient == InitClientOnly /\ [][NextClient]_vars

InitStream ==
    /\ InitClient
    /\ prompts = <<>>
    /\ cfg = [resume |-> TRUE, save_summary |-> TRUE, save_raw |-> FALSE]
    /\ svc = NewService
    /\ run = IdleRun
    /\ disk = [summary |-> NoFile, files |-> <<>>, raw |-> {}]
    /\ result = [processed_count |-> 0, total_count |-> 0]
    /\ obs = NoObs
    /\ stream = IdleStream
    /\ probe = IdleProbe
    /\ ev = IdleEval

NextStream ==
    \/ \E status \in {"ok", "conn_error", "http_error", "timeout"} : StreamCall(status)
    \/ \E l \in StreamLines : StreamLine(l)
    \/ StreamResume
    \/ StreamEof
    \/ StreamError
    \/ StreamAgain

SpecStream == InitStream /\ [][NextStream]_vars

(***************************************************************************)
(* The stream with a consumer that may abandon it.  An abandoned generator *)
(* is closed by the event loop's finalizer: weak fairness of StreamAclose. *)
(***************************************************************************)
NextStreamCancel ==
    \/ \E status \in {"ok", "conn_error", "http_error", "timeout"} : StreamCall(status)
    \/ \E l \in StreamLines : StreamLine(l)
    \/ StreamResume
    \/ StreamEof
    \/ StreamError
    \/ StreamAgain
    \/ StreamAbandon
    \/ StreamAclose
    \/ StreamCancelled

SpecStreamCancel ==
    InitStream /\ [][NextStreamCancel]_vars /\ WF_vars(StreamAclose)

(***************************************************************************)
(* The availability probe on its own.                                      *)
(***************************************************************************)
InitProbe ==
    /\ InitClient
    /\ prompts = <<>>
    /\ cfg = [resume |-> TRUE, save_summary |-> TRUE, save_raw |-> FALSE]
    /\ svc = NewService
    /\ run = IdleRun
    /\ disk = [summary |-> NoFile, files |-> <<>>, raw |-> {}]
    /\ result = [processed_count |-> 0, total_count |-> 0]
    /\ obs = NoObs
    /\ stream = IdleStream
    /\ probe \in {[IdleProbe EXCEPT !.service = o] : o \in ServiceStates}
    /\ ev = IdleEval

NextProbe ==
    \/ \E k \in 1..MaxKeys : ProbeCall(k)
    \/ ServiceChange

SpecProbe == InitProbe /\ [][NextProbe]_vars

(***************************************************************************)
(* _apply_precision_bias applied to every reply text and bias.             *)
(***************************************************************************)
MaxBias == 10           \* precision_bias ranges over -1.0 .. 1.0, in tenths

BiasTexts ==
    {Dumps(j) : j \in JsonVals}
    \cup {DumpsIndent2(j) : j \in {v \in JsonVals : v.dialog # "e"}}
    \cup {TxtList([has_command |-> "true", dialog |-> "absent"]), TxtEmptyList,
          TxtJsonString, TxtJsonNumber, TxtJsonNull, TxtProse, TxtWrapped, ""}

NoOutcome == [exc |-> "", text |-> ""]

InitBias ==
    /\ InitClient
    /\ prompts = <<>>
    /\ cfg = [resume |-> TRUE, save_summary |-> TRUE, save_raw |-> FALSE]
    /\ svc = NewService
    /\ run = IdleRun
    /\ disk = [summary |-> NoFile, files |-> <<>>, raw |-> {}]
    /\ result = [processed_count |-> 0, total_count |-> 0]
    /\ obs = NoObs
    /\ stream = IdleStream
    /\ probe = IdleProbe
    /\ ev \in [pc : {"called"}, content : BiasTexts, bias : (-MaxBias)..MaxBias,
               out : {NoOutcome}]

\* self._apply_precision_bias(content, precision_bias)
ApplyBiasCall ==
    /\ ev.pc = "called"
    /\ ev' = [ev EXCEPT !.pc = "done",
                        !.out = PrecisionBiasOutcome(ev.content, ev.bias)]
    /\ UNCHANGED <<clientVars, batchVars, stream, probe>>

NextBias == ApplyBiasCall

SpecBias == InitBias /\ [][NextBias]_vars

(***************************************************************************)
(* evaluate_model_predictions over every summary and dataset.              *)
(***************************************************************************)
EvalItems ==
    [prompt_id : 1..(MaxDataset + 1), prompt : EvalPrompts, response : EvalResponses]

InitEval ==
    /\ InitClient
    /\ prompts = <<>>
    /\ cfg = [resume |-> TRUE, save_summary |-> TRUE, save_raw |-> FALSE]
    /\ svc = NewService
    /\ run = IdleRun
    /\ disk = [summary |-> NoFile, files |-> <<>>, raw |-> {}]
    /\ result = [processed_count |-> 0, total_count |-> 0]
    /\ obs = NoObs
    /\ stream = IdleStream
    /\ probe = IdleProbe
    /\ ev \in {StartEval(d) : d \in Datasets} \cup {StartMetrics(cm) : cm \in Matrices}

NextEval ==
    \/ \E item \in EvalItems : EvalRecord(item)
    \/ EvalReturn
    \/ ComputeMetricsCall

SpecEval == InitEval /\ [][NextEval]_vars

\* Scoring of summaries whose replies have every shape extract_prediction
\* tells apart, without a dataset.

\* replies that carry no flag: empty, prose, truncated JSON, JSON scalars,
\* arrays without a first object, objects and first objects without the flag
FlaglessReplies ==
    {"", TxtProse, TxtTruncated, TxtJsonString, TxtJsonNumber, TxtJsonNull,
     TxtEmptyList, TxtListOfNumber, Dumps(NoJson),
     Dumps([has_command |-> "absent", dialog |-> "d"]), TxtList(NoJson)}

\* replies that carry a flag: at top level, in the first element of an
\* array, inside another field
FlagReplies ==
    {Dumps([has_command |-> f, dialog |-> "absent"]) : f \in {"true", "false", "null"}}
    \cup {TxtList([has_command |-> f, dialog |-> "absent"]) : f \in {"true", "false"}}
    \cup {TxtNested([has_command |-> f, dialog |-> "absent"]) : f \in {"true", "false"}}

ExtractItems ==
    [prompt_id : 1..MaxRecords, prompt : {TxtProse},
     response : FlaglessReplies \cup FlagReplies]

InitExtract ==
    /\ InitClient
    /\ prompts = <<>>
    /\ cfg = [resume |-> TRUE, save_summary |-> TRUE, save_raw |-> FALSE]
    /\ svc = NewService
    /\ run = IdleRun
    /\ disk = [summary |-> NoFile, files |-> <<>>, raw |-> {}]
    /\ result = [processed_count |-> 0, total_count |-> 0]
    /\ obs = NoObs
    /\ stream = IdleStream
    /\ probe = IdleProbe
    /\ ev = StartEval(<<>>)

NextExtract ==
    \/ \E item \in ExtractItems : EvalRecord(item)
    \/ EvalReturn

SpecExtract == InitExtract /\ [][NextExtract]_vars

\* Scoring with a dataset file that may be missing or may not parse.
\* state: "missing" (open raises), "garbage" (json.load raises; items: the
\* entries the text holds before it stops being JSON), "json" (a list)
DatasetFile(state, items) == [state |-> state, items |-> items]

DatasetFiles ==
    {DatasetFile("missing", <<>>)}
    \cup {DatasetFile(st, d) : st \in {"garbage", "json"},
                               d \in {x \in Datasets : Len(x) <= 1}}

\* a load that keeps the entries read before the failure
LoadedDatasetPartial(file) == file.items

\* lines 150-166: `dataset` after the try block; it is assigned by json.load
\* alone, so a failure of open or of json.load leaves the empty list
LoadedDataset(file) == IF file.state = "json" THEN file.items ELSE <<>>

\* lines 143-167 with a dataset_file
StartEvalFile(file) ==
    [StartEval(LoadedDataset(file)) EXCEPT !.load = file.state]

InitLoad ==
    /\ InitClient
    /\ prompts = <<>>
    /\ cfg = [resume |-> TRUE, save_summary |-> TRUE, save_raw |-> FALSE]
    /\ svc = NewService
    /\ run = IdleRun
    /\ disk = [summary |-> NoFile, files |-> <<>>, raw |-> {}]
    /\ result = [processed_count |-> 0, total_count |-> 0]
    /\ obs = NoObs
    /\ stream = IdleStream
    /\ probe = IdleProbe
    /\ ev \in {StartEvalFile(f) : f \in DatasetFiles}

NextLoad ==
    \/ \E item \in EvalItems : EvalRecord(item)
    \/ EvalReturn

SpecLoad == InitLoad /\ [][NextLoad]_vars

\* Repeated scoring of one summary: evaluate_model_predictions writes its
\* tags into the items of the list it is given, and the caller hands the same
\* list to a later call.
MaxTagged == 2          \* records of the summary that is scored repeatedly
MaxEvalRuns == 2        \* calls of evaluate_model_predictions on the summary

\* an item of summary.json as process_prompts wrote it, not tagged yet
Untagged(prompt_id, prompt, response) ==
    [prompt_id |-> prompt_id, prompt |-> prompt, response |-> response,
     prediction |-> "absent", ground_truth |-> "absent", category |-> "absent"]

\* item["prediction"], item["ground_truth"], item["category"] take the
\* values of the current call only when the item has no tags yet
WriteTagsOnce(item, sample) ==
    IF item.category # "absent" THEN item
    ELSE [item EXCEPT !.prediction = sample.prediction,
                      !.ground_truth = sample.ground_truth,
                      !.category = sample.category]

\* item["prediction"] = pred; item["ground_truth"] = gt; item["category"] =
\* ... (lines 232-243 and 251-257)
WriteTags(item, sample) ==
    [item EXCEPT !.prediction = sample.prediction,
                 !.ground_truth = sample.ground_truth,
                 !.category = sample.category]

\* the loop of lines 169-259 over the first k items: the scoring state and
\* the items as the loop leaves them
\* item k after its iteration left the scoring state st
TagItem(items, k, st) ==
    [st |-> st,
     items |-> IF st.skipped THEN items
               ELSE [items EXCEPT ![k] = WriteTags(@, st.samples[Len(st.samples)])]]

ScoreItem(before, k) ==
    TagItem(before.items, k, ScoreRecord(before.st, before.items[k]))

RECURSIVE ScoreUpTo(_, _, _)
ScoreUpTo(summary, dataset, k) ==
    IF k = 0 THEN [st |-> StartEval(dataset), items |-> summary]
    ELSE ScoreItem(ScoreUpTo(summary, dataset, k - 1), k)

RetagPrompts ==
    {TxtKeyD, TxtProse, Dumps([has_command |-> "true", dialog |-> "d"])}

RetagResponses ==
    {TxtCmd, Dumps([has_command |-> "false", dialog |-> "absent"]),
     Dumps([has_command |-> "null", dialog |-> "absent"])}

RetagSummaries ==
    {s \in SeqsUpTo({Untagged(0, p, r) : p \in RetagPrompts, r \in RetagResponses},
                     MaxTagged) : s # <<>>}

\* process_prompts numbers the items by their position
Numbered(summary) == [k \in 1..Len(summary) |-> [summary[k] EXCEPT !.prompt_id = k]]

RetagDatasets == {d \in Datasets : Len(d) <= 1}

NoRun == [summary |-> <<>>, dataset |-> <<>>, result |-> NoEvalResult]

\* evaluate_model_predictions(summary, dataset_file) on the list the caller
\* holds (lines 130-297)
\* the caller's state after a call that left `scored`
Evaluated(e, dataset, scored) ==
    [e EXCEPT !.runs = @ + 1,
              !.summary = scored.items,
              !.dataset = dataset,
              !.result = EvalResult(scored.st),
              !.before = [summary |-> e.summary, dataset |-> e.dataset,
                          result |-> e.result]]

EvaluateAgain(dataset) ==
    /\ ev.pc = "tagging"
    /\ ev.runs < MaxEvalRuns
    /\ ev' = Evaluated(ev, dataset, ScoreUpTo(ev.summary, dataset, Len(ev.summary)))
    /\ UNCHANGED <<clientVars, batchVars, stream, probe>>

InitRetag ==
    /\ InitClient
    /\ prompts = <<>>
    /\ cfg = [resume |-> TRUE, save_summary |-> TRUE, save_raw |-> FALSE]
    /\ svc = NewService
    /\ run = IdleRun
    /\ disk = [summary |-> NoFile, files |-> <<>>, raw |-> {}]
    /\ result = [processed_count |-> 0, total_count |-> 0]
    /\ obs = NoObs
    /\ stream = IdleStream
    /\ probe = IdleProbe
    /\ \E s \in RetagSummaries :
         ev = [pc |-> "tagging", runs |-> 0, summary |-> Numbered(s),
               dataset |-> <<>>, result |-> NoEvalResult, before |-> NoRun]

NextRetag == \E d \in RetagDatasets : EvaluateAgain(d)

SpecRetag == InitRetag /\ [][NextRetag]_vars

(***************************************************************************)
(* Properties of the client.                                               *)
(***************************************************************************)
Finished(c) == c.pc \in {"returned", "raised"}

\* the transport outcomes call c consumed, one per request it posted
Consumed(c) == SubSeq(net, 1, Len(c.requests))

TransportFailure(o) == o.kind \in {"conn_error", "http_error"}
Malformed(o) == o.kind \in {"no_message", "no_content"}

\* C5: when every HTTP attempt of generate / generate_async fails at transport
\* level (connection error or non-2xx status), for every retry_count >= 0 and
\* either value of return_full_response, the call ends by raising
\* OllamaException carrying the last failure; it never returns normally.
C5_TransportFailureRaises ==
    \A c \in {gen, agen} :
        (Finished(c) /\ \A k \in 1..Len(c.requests) : TransportFailure(net[k]))
        => /\ c.pc = "raised"
           /\ c.exc = "OllamaException"
           /\ c.requests # <<>>
           /\ c.cause = net[Len(c.requests)].kind

\* C6: a call of generate whose every attempt fails issues the initial request
\* followed by retry_count retries (retry_count + 1 requests) before the error
\* is surfaced; once an attempt succeeds its reply is returned and no further
\* request is issued.
C6_RetryBudget ==
    /\ (Finished(gen) /\ \A k \in 1..Len(gen.requests) : IsRequestException(net[k]))
       => Len(gen.requests) = gen.retry_count + 1
    /\ \A k \in 1..Len(gen.requests) :
          Is2xx(net[k]) => /\ k = Len(gen.requests)
                           /\ gen.pc = "returned"
                           /\ gen.ret = ReplyValue(net[k], gen.rfr, gen.bias)

\* C7: in generate and generate_async the wait before the retry that follows
\* failed attempt a (a = 0, 1, ...) is retry_delay * 2^a: the first delay is
\* retry_delay, every later delay is twice the one before it, and there is one
\* delay per failed attempt that is followed by a retry.
C7_BackoffDoubling ==
    \A c \in {gen, agen} :
        /\ (c.pc = "loop" => Len(c.sleeps) = c.attempt /\ Len(c.requests) = c.attempt)
        /\ (Finished(c) /\ c.requests # <<>> => Len(c.sleeps) = Len(c.requests) - 1)
        /\ (c.sleeps # <<>> => c.sleeps[1] = c.retry_delay)
        /\ \A r \in 1..(Len(c.sleeps) - 1) : c.sleeps[r + 1] = 2 * c.sleeps[r]

\* C7 witness: a call that slept twice before a third attempt, in either mode
C7_Witness ==
    /\ Len(gen.sleeps) >= 2 /\ Len(agen.sleeps) >= 2
    /\ gen.retry_delay = 2 /\ gen.sleeps[2] = 4

C9_ModesAgree ==
    (Finished(gen) /\ Finished(agen))
    => /\ agen.requests = gen.requests
       /\ agen.sleeps = gen.sleeps
       /\ agen.pc = gen.pc
       /\ agen.ret = gen.ret
       /\ agen.exc = gen.exc

(***************************************************************************)
(* Properties of the stream.                                               *)
(***************************************************************************)
\* the increments a consumer is owed for the lines received: the contents in
\* arrival order, up to and including the first line that carries done
RECURSIVE OwedIncrements(_)
OwedIncrements(ls) ==
    IF ls = <<>> THEN <<>>
    ELSE LET l == Head(ls)
             own == IF l.json /\ ~l.blank /\ l.hasContent THEN <<l.content>>
                    ELSE <<>> IN
         IF l.json /\ ~l.blank /\ l.done THEN own
         ELSE own \o OwedIncrements(Tail(ls))

CarriesDone(l) == l.json /\ ~l.blank /\ l.done

\* C10: generate_stream yields the message.content of the received lines in
\* arrival order, skips empty and unparsable lines without ending the stream,
\* reads and yields nothing after the first line carrying done: true, and has
\* released the HTTP response once it has gone past that marker; for the
\* increments "A", "B" and a done marker the consumer collects <<"A", "B">>.
C10_StreamOrder ==
    /\ stream.yielded = OwedIncrements(stream.lines)
    /\ \A k \in 1..(Len(stream.lines) - 1) : ~CarriesDone(stream.lines[k])
    /\ (stream.lines # <<>> /\ CarriesDone(stream.lines[Len(stream.lines)]))
       => \/ stream.pc = "suspended"
          \/ stream.pc = "finished" /\ ~stream.open
    /\ (stream.lines # <<>> /\ stream.pc \in {"running", "suspended"})
       => stream.open
    /\ stream.pc \in {"finished", "raised", "idle"} => ~stream.open
    /\ stream.lines = <<LineInc("A"), LineInc("B"), LineDone>>
       => stream.yielded = <<"A", "B">> /\ stream.pc = "finished"

\* C10 witness: "A", an unparsable line, "B", then the marker: both increments
\* were collected and the response is released
C10_Witness ==
    /\ stream.lines = <<LineInc("A"), LineGarbage, LineInc("B"), LineDone>>
    /\ stream.yielded = <<"A", "B">>
    /\ stream.pc = "finished" /\ ~stream.open

Abandoned == stream.pc \in {"abandoned", "closed", "cancelled"}

C12_ProbeCached ==
    probe.call.again
    => /\ ~probe.call.requested
       /\ probe.call.ret = probe.first[probe.call.key]

\* C12 amended: a call of check_model_available for a (client, model name)
\* that was probed before sends no HTTP request and returns the pair the
\* call before it returned, whatever that verdict was and whatever the
\* service answers now, when fewer than 16 distinct other (client, model
\* name) pairs were probed since that call; after 16 or more it sends the
\* request again and returns what the service answers now.
C12_ProbeCachedWhileRecent ==
    probe.call.again
    => IF probe.call.others < CacheMaxSize
       THEN /\ ~probe.call.requested
            /\ probe.call.ret = probe.call.before
       ELSE /\ probe.call.requested
            /\ probe.call.ret = CheckModelAvailable(probe.service)

\* C12 witness: a model found available is probed again after 15 other keys
\* while the service is down: no request, still available
C12_Witness ==
    /\ probe.call.again /\ probe.call.others = CacheMaxSize - 1
    /\ probe.call.key = 1 /\ probe.reprobes = 2
    /\ probe.service = "conn_error"
    /\ ~probe.call.requested
    /\ probe.call.ret = [available |-> TRUE, diagnostic |-> ""]

(***************************************************************************)
(* Properties of the precision bias.                                       *)
(***************************************************************************)
\* the reply is a JSON object that holds has_command
HasFlag(text) == LoadsKind(text) = "dict" /\ Loads(text).has_command # "absent"

\* C13: _apply_precision_bias returns the reply text unchanged, character
\* for character, whenever the bias is 0, the reply is empty, the reply does
\* not parse as JSON, or the parsed reply has no has_command field; and it
\* raises for no reply text.
C13_BiasLeavesUnchanged ==
    ev.pc = "done"
    => /\ ev.out.exc = ""
       /\ (ev.bias = 0 \/ ev.content = "" \/ ~HasFlag(ev.content))
          => ev.out.text = ev.content

\* C13 witness: a reply that is a JSON string naming the field, under a
\* strong bias, came back as it was
C13_Witness ==
    /\ ev.pc = "done" /\ ev.content = TxtJsonString /\ ev.bias = 9
    /\ ev.out = [exc |-> "", text |-> TxtJsonString]

\* C14: for a reply that parses as a JSON object with has_command,
\* _apply_precision_bias sets has_command from true to false exactly when
\* bias > 0.8, or bias > 0.3 and the object has a dialog field; from false to
\* true exactly when bias < -0.8, or bias < -0.3 and the object has a dialog
\* field; in every other case the prediction is the one of the reply.
C14_BiasFlipRule ==
    (ev.pc = "done" /\ HasFlag(ev.content))
    => LET j == Loads(ev.content)
           dlg == j.dialog # "absent"
           flag == Loads(ev.out.text).has_command IN
       /\ ev.out.exc = ""
       /\ flag =
            IF j.has_command = "true"
               /\ (ev.bias > BiasHigh \/ (ev.bias > BiasLow /\ dlg))
            THEN "false"
            ELSE IF j.has_command = "false"
                    /\ (ev.bias < -BiasHigh \/ (ev.bias < -BiasLow /\ dlg))
            THEN "true"
            ELSE j.has_command

(***************************************************************************)
(* Properties of the scoring.                                              *)
(***************************************************************************)
\* the latest record was scored; its sample is the last one
Scored == ev.pc = "loop" /\ ev.n > 0 /\ ~ev.skipped
LastSample == ev.samples[Len(ev.samples)]

\* the flag written into the prompt, "absent" when the prompt is no object
\* or carries none
PromptFlag(prompt) ==
    IF prompt \in ObjectTexts THEN ObjectOf[prompt].has_command ELSE "absent"

\* the dialog written into the prompt
PromptDialog(prompt) ==
    IF prompt \in ObjectTexts THEN ObjectOf[prompt].dialog ELSE "absent"

\* the flag the dataset holds for a dialog: the one of the last entry with
\* that dialog and a has_command field; "null" when there is none
IndexedAt(dataset, dialog) ==
    {k \in 1..Len(dataset) : /\ dataset[k].dialog = dialog
                             /\ dialog # "absent"
                             /\ dataset[k].has_command # "absent"}

DatasetFlag(dataset, dialog) ==
    LET ks == IndexedAt(dataset, dialog) IN
    IF ks = {} THEN "null"
    ELSE dataset[CHOOSE k \in ks : \A m \in ks : m <= k].has_command

\* the flag of the entry at position prompt_id, "null" when there is none
PositionFlag(dataset, prompt_id) ==
    IF prompt_id \in 1..Len(dataset) /\ dataset[prompt_id].has_command # "absent"
    THEN dataset[prompt_id].has_command
    ELSE "null"

\* C15: for a record whose prompt parses as JSON carrying a has_command flag
\* and which also matches an entry of the dataset (by dialogue or by
\* position) with the opposite flag, the ground truth is the flag of the
\* prompt.
C15_EmbeddedWins ==
    (Scored /\ PromptFlag(ev.item.prompt) \in {"true", "false"})
    => /\ LastSample.ground_truth = PromptFlag(ev.item.prompt)
       /\ ev.source = "embedded"

\* C15 witness: the prompt says true, the dataset says false for the same
\* dialogue and at the record's position
C15_Witness ==
    /\ Scored
    /\ PromptFlag(ev.item.prompt) = "true" /\ PromptDialog(ev.item.prompt) = "d"
    /\ DatasetFlag(ev.dataset, "d") = "false"
    /\ PositionFlag(ev.dataset, ev.item.prompt_id) = "false"
    /\ LastSample.ground_truth = "true"

\* a flag that resolves a ground truth
Resolves(flag) == flag \in {"true", "false"}

\* C16: for a record with no embedded flag the ground truth is taken from
\* the first of these that resolves: (1) the dataset entry indexed under the
\* prompt text verbatim, (2) a dataset entry whose parsed dialogue equals the
\* prompt's parsed dialogue, (3) the dataset entry at index prompt_id - 1
\* when 1 <= prompt_id <= len(dataset), (4) false; a later one is consulted
\* only when every earlier one failed.
C16_FallbackOrder ==
    (Scored /\ ~Resolves(PromptFlag(ev.item.prompt)))
    => LET prompt == ev.item.prompt
           exact == IF \E d \in {"d", "e"} : prompt = DialogKey(d)
                    THEN DatasetFlag(ev.dataset, PromptDialog(prompt))
                    ELSE "null"
           structural == DatasetFlag(ev.dataset, PromptDialog(prompt))
           positional == PositionFlag(ev.dataset, ev.item.prompt_id) IN
       /\ LastSample.ground_truth =
            IF Resolves(exact) THEN exact
            ELSE IF Resolves(structural) THEN structural
            ELSE IF Resolves(positional) THEN positional
            ELSE "false"
       /\ ev.source =
            IF Resolves(exact) THEN "exact"
            ELSE IF Resolves(structural) THEN "structural"
            ELSE IF Resolves(positional) THEN "positional"
            ELSE "default"

\* C16 witness: the prompt is dialogue d written with other whitespace; the
\* verbatim key misses, the dialogue matches the second entry (false) while
\* the entry at the record's position says true
C16_Witness ==
    /\ Scored
    /\ ev.item.prompt = TxtKeyDIndented /\ ev.item.prompt_id = 1
    /\ ev.dataset = <<[has_command |-> "true", dialog |-> "e"],
                      [has_command |-> "false", dialog |-> "d"]>>
    /\ ev.source = "structural"
    /\ LastSample.ground_truth = "false"

\* C17: when no dataset is supplied and the prompt carries no embedded
\* flag, the record gets ground truth false and category FP if the
\* prediction is true, TN if it is false; a free-text prompt with the reply
\* {"has_command": true} is tagged prediction true, ground truth false, FP.
C17_DefaultPath ==
    (Scored /\ ev.dataset = <<>> /\ ~Resolves(PromptFlag(ev.item.prompt)))
    => /\ LastSample.ground_truth = "false"
       /\ LastSample.prediction = "true" => LastSample.category = "FP"
       /\ LastSample.prediction = "false" => LastSample.category = "TN"
       /\ (ev.item.prompt = TxtProse /\ ev.item.response = TxtCmd)
          => LastSample = [prompt_id |-> ev.item.prompt_id, prediction |-> "true",
                           ground_truth |-> "false", category |-> "FP"]

\* C17 witness: scenario A
C17_Witness ==
    /\ Scored /\ ev.dataset = <<>>
    /\ ev.item.prompt = TxtProse /\ ev.item.response = TxtCmd
    /\ LastSample.category = "FP" /\ ev.source = "default"

\* the record's prompt is verbatim the key of a dataset entry that says true
ExactTrueEntry ==
    \E k \in 1..Len(ev.dataset) :
        /\ ev.dataset[k].has_command = "true"
        /\ ev.dataset[k].dialog # "absent"
        /\ ev.item.prompt = DialogKey(ev.dataset[k].dialog)

NullReply(response) ==
    \/ response \in ObjectTexts /\ ObjectOf[response].has_command = "null"
    \/ \E j \in JsonVals : response = TxtList(j) /\ j.has_command = "null"

CellSum(cm) == cm.TP + cm.FP + cm.TN + cm.FN

IsRatioOrZero(rate, n, d) ==
    /\ rate.den > 0
    /\ d > 0 => rate.num * d = n * rate.den
    /\ d = 0 => rate.num = 0

\* f1 is 2PR / (P + R), and 0 when P + R is 0
IsF1(f1, P, R) ==
    LET sum == P.num * R.den + R.num * P.den IN
    /\ f1.den > 0
    /\ sum > 0 => f1.num * (sum * P.den * R.den) = (2 * P.num * R.num * P.den * R.den) * f1.den
    /\ sum = 0 => f1.num = 0

\* C20: compute_metrics returns accuracy = (TP+TN)/total, precision =
\* TP/(TP+FP), recall = TP/(TP+FN) and f1 = 2PR/(P+R), each of them 0 when
\* its denominator is 0; evaluate_model_predictions over zero records returns
\* an all-zero matrix and all-zero rates.
C20_ZeroDenominators ==
    LET cm == ev.result.confusion_matrix
        m == ev.result.metrics IN
    /\ ev.pc \in {"metrics_done", "returned"}
       => /\ IsRatioOrZero(m.accuracy, cm.TP + cm.TN, cm.TP + cm.TN + cm.FP + cm.FN)
          /\ IsRatioOrZero(m.precision, cm.TP, cm.TP + cm.FP)
          /\ IsRatioOrZero(m.recall, cm.TP, cm.TP + cm.FN)
          /\ IsF1(m.f1, m.precision, m.recall)
    /\ ev.pc = "returned" /\ ev.n = 0
       => /\ \A c \in {"TP", "FP", "TN", "FN"} : cm[c] = 0
          /\ \A r \in {"accuracy", "precision", "recall", "f1"} : m[r].num = 0
          /\ ev.result.total_samples = 0 /\ ev.result.valid_samples = 0

\* C20 witness: a matrix without positive predictions: precision has nothing
\* to divide by and is 0, accuracy is 1/2
C20_Witness ==
    /\ ev.pc = "metrics_done"
    /\ ev.result.confusion_matrix = [TP |-> 0, FP |-> 0, TN |-> 1, FN |-> 1]
    /\ ev.result.metrics.precision.num = 0
    /\ ev.result.metrics.f1.num = 0
    /\ ev.result.metrics.accuracy = [num |-> 1, den |-> 2]

\* C21 as claimed: valid_samples is the number of records whose ground
\* truth was resolved by the embedded flag or a dataset strategy, records
\* that fell back to the default are not counted as valid; total_samples is
\* the number of records considered.
C21_ValidCountsResolved ==
    ev.pc = "returned"
    => /\ ev.result.valid_samples = ev.resolved
       /\ ev.result.total_samples = ev.n

\* C21 amended: valid_samples is the number of records that were scored,
\* those whose ground truth fell back to the default included (every record
\* but the ones whose reply carries has_command null); total_samples is the
\* number of records considered.
C21_ValidCountsScored ==
    ev.pc = "returned"
    => /\ ev.result.valid_samples = ev.resolved + ev.defaulted
       /\ ev.result.total_samples = ev.n
       /\ ev.resolved + ev.defaulted <= ev.n

\* C21 witness: two records scored, one resolved by the dataset and one by
\* the default: both are valid
C21_Witness ==
    /\ ev.pc = "returned" /\ ev.n = 2
    /\ ev.resolved = 1 /\ ev.defaulted = 1
    /\ ev.result.valid_samples = 2 /\ ev.result.total_samples = 2

FlagAtTopLevel(response) ==
    IF response \in ObjectTexts THEN ObjectOf[response].has_command ELSE "absent"

FlagInFirstElement(response) ==
    IF \E j \in JsonVals : response = TxtList(j)
    THEN (CHOOSE j \in JsonVals : response = TxtList(j)).has_command
    ELSE "absent"

FlagNestedOneLevel(response) ==
    IF \E j \in JsonVals : response = TxtNested(j)
    THEN (CHOOSE j \in JsonVals : response = TxtNested(j)).has_command
    ELSE "absent"

\* C23: extract_prediction returns the has_command of the reply object when
\* it is at top level, of the first element when the reply is a sequence,
\* and of a has_command nested one level inside another field of the reply
\* object when there is no top-level flag.
C23_FlagLocated ==
    (ev.pc = "loop" /\ ev.n > 0)
    => LET r == ev.item.response
           flag == IF FlagAtTopLevel(r) # "absent" THEN FlagAtTopLevel(r)
                   ELSE IF FlagInFirstElement(r) # "absent" THEN FlagInFirstElement(r)
                   ELSE FlagNestedOneLevel(r) IN
       flag \in {"true", "false"} => (~ev.skipped /\ LastSample.prediction = flag)

\* the prediction a flag reply stands for
ExpectedPrediction(response) ==
    IF FlagAtTopLevel(response) # "absent" THEN FlagAtTopLevel(response) ELSE "false"

\* the ground truth the record's prompt and the dataset stand for
ExpectedGroundTruth(prompt, prompt_id, dataset) ==
    LET byDialog == DatasetFlag(dataset, PromptDialog(prompt))
        byPosition == PositionFlag(dataset, prompt_id) IN
    IF Resolves(PromptFlag(prompt)) THEN PromptFlag(prompt)
    ELSE IF Resolves(byDialog) THEN byDialog
    ELSE IF Resolves(byPosition) THEN byPosition
    ELSE "false"

Crossing(prediction, ground_truth) ==
    CASE prediction = "true" /\ ground_truth = "true" -> "TP"
      [] prediction = "true" /\ ground_truth = "false" -> "FP"
      [] prediction = "false" /\ ground_truth = "true" -> "FN"
      [] prediction = "false" /\ ground_truth = "false" -> "TN"

\* C24: every scored record carries the category that crosses its
\* prediction and its ground truth; a later call on the already tagged
\* summary with another dataset overwrites prediction, ground_truth and
\* category from the current inputs, and a later call with the same inputs
\* returns the same matrix, metrics and tags.
C24_TagsRecomputed ==
    ev.runs > 0
    => /\ \A k \in 1..Len(ev.summary) :
            LET it == ev.summary[k] IN
            IF NullReply(it.response)
            THEN it.category = "absent"
            ELSE /\ it.prediction = ExpectedPrediction(it.response)
                 /\ it.ground_truth =
                      ExpectedGroundTruth(it.prompt, it.prompt_id, ev.dataset)
                 /\ it.category = Crossing(it.prediction, it.ground_truth)
       /\ \A c \in {"TP", "FP", "TN", "FN"} :
            ev.result.confusion_matrix[c] =
              Cardinality({k \in 1..Len(ev.summary) : ev.summary[k].category = c})
       /\ (ev.runs > 1 /\ ev.dataset = ev.before.dataset)
          => /\ ev.summary = ev.before.summary
             /\ ev.result = ev.before.result

\* C24 witness: the second call has another dataset, and a record tagged FP
\* by the first call is tagged TP by the second
C24_Witness ==
    /\ ev.runs = 2 /\ ev.dataset # ev.before.dataset
    /\ \E k \in 1..Len(ev.summary) :
         /\ ev.before.summary[k].category = "FP"
         /\ ev.summary[k].category = "TP"

(***************************************************************************)
(* Properties of the batch processor.                                      *)
(***************************************************************************)
Ids(summary) == {summary[k].prompt_id : k \in 1..Len(summary)}
AllIds == 1..Len(prompts)

\* the summary that summary.json holds
Durable(d) == IF d.summary.state = "json" THEN d.summary.items ELSE <<>>

C2_FailureIsolation ==
    run.pc = "done"
    => /\ obs.failed \cap obs.appended = {}
       /\ AllIds \ obs.failed \subseteq Ids(svc.summary)
       /\ result.processed_count = Len(prompts) - Cardinality(obs.failed)
       /\ result.total_count = Len(prompts)
       /\ (Len(prompts) = 3 /\ obs.failed = {2} /\ obs.runs = 1)
          => /\ Ids(svc.summary) = {1, 3}
             /\ result.processed_count = 2

\* C3 as claimed: every append is followed, before the next item is started,
\* by a write of the whole summary, so that between two items the durable
\* summary equals the summary in memory; and in a resumed run after a crash
\* no item the crashed run had completed is sent to the client again.
C3_WriteThrough ==
    /\ run.pc = "loop" => Durable(disk) = svc.summary
    /\ (obs.afterCrash /\ cfg.resume) => obs.called \cap obs.completed = {}

\* C3 amended: with save_summary enabled, every append is followed, before
\* the next item is started, by a write of the whole summary, so that between
\* two items the durable summary equals the summary in memory from the first
\* append of the run on (and from the start of a run that loaded
\* summary.json); and, whatever save_summary is, in a resumed run after a
\* crash no item the crashed run had completed is sent to the client again.
C3_WriteThroughWhenSaving ==
    /\ (/\ run.pc = "loop"
        /\ cfg.save_summary
        /\ obs.appended # {} \/ (cfg.resume /\ disk.summary.state = "json"))
       => Durable(disk) = svc.summary
    /\ (obs.afterCrash /\ cfg.resume) => obs.called \cap obs.completed = {}

\* C3 witness: a run crashed after completing items; the resumed run skipped
\* them, processed a later item and is between two items
C3_Witness ==
    /\ obs.afterCrash /\ cfg.resume /\ cfg.save_summary
    /\ run.pc = "loop" /\ run.i = 3
    /\ obs.completed = {1, 2} /\ obs.called = {3} /\ obs.appended = {3}
    /\ Durable(disk) = svc.summary /\ Len(svc.summary) = 3

\* C4: after any sequence of process_prompts runs over the same prompt list
\* (fresh or resumed, on a new or a reused service instance, with or without
\* failures) the RunSummary holds at most one record for each prompt_id.
C4_OneRecordPerItem ==
    \A j, k \in 1..Len(svc.summary) :
        svc.summary[j].prompt_id = svc.summary[k].prompt_id => j = k


(***************************************************************************)
(* Properties of the batch processor on files that may fail.               *)
(***************************************************************************)
Resumed == cfg.resume /\ PromptId \in svc.processed_ids
Cached == ~Resumed /\ cfg.resume /\ ComputePromptHash(Prompt) \in DOMAIN run.existing

\* SKIPPED_RESUMED: nothing but the position changes
NoOpSkip == run' = [run EXCEPT !.i = @ + 1] /\ UNCHANGED <<svc, disk, obs>>

\* SKIPPED_CACHED: no call, and one record with the content of the file
CachedSkip ==
    LET path == run.existing[ComputePromptHash(Prompt)] IN
    /\ run' = [run EXCEPT !.i = @ + 1]
    /\ obs'.called = obs.called /\ obs'.log = obs.log
    /\ svc'.summary = Append(svc.summary,
                             [prompt_id |-> PromptId, prompt |-> Prompt,
                              response |-> disk.files[path], output_file |-> path])

\* CALLING: the client is called for the item
Called == PromptId \in obs'.called /\ obs'.log = Append(obs.log, "call")

\* C25 as claimed: with resume on an item whose prompt_id is in
\* processed_ids is skipped with no call, no append and no file read; else
\* an item whose fingerprint has a response file is skipped with the file
\* read back into one appended record and no call; every other item, and
\* every item with resume off, goes to the call.
C25_SkipsMakeNoCall ==
    [][InLoop => /\ Resumed => NoOpSkip
                 /\ Cached => CachedSkip
                 /\ (~Resumed /\ ~Cached) => Called]_vars

\* C25 amended: as claimed, but an item whose fingerprint has a response
\* file is skipped only when the file can be read; when reading it fails the
\* item goes to the call like an item without a file.
C25_SkipsUnlessReadFails ==
    [][InLoop => /\ Resumed => NoOpSkip
                 /\ (Cached /\ IoFailed("read", PromptId) \notin obs'.io) => CachedSkip
                 /\ (Cached /\ IoFailed("read", PromptId) \in obs'.io) => Called
                 /\ (~Resumed /\ ~Cached) => Called
                 /\ ~cfg.resume => Called]_vars

\* C25 witness: a second run over two items that made no call: the first
\* item was skipped for its prompt_id, the second for its response file
C25_Witness ==
    /\ obs.runs = 2 /\ run.pc = "done" /\ cfg.resume /\ Len(prompts) = 2
    /\ obs.called = {} /\ obs.io = {} /\ obs.appended = {2}
    /\ svc.processed_ids = {1, 2}

\* C27: when writing an item's response file or summary.json fails, the
\* failure is raised to the caller and the run stops: no run ends normally
\* after such a failure.
C27_WriteFailuresPropagated ==
    (\E f \in obs.io : f.kind \in {"artifact", "summary"}) => run.pc # "done"

\* C26: in a run of process_prompts a delay elapses between every two
\* successive client calls, whether the earlier call succeeded or failed; no
\* delay follows the last item of the list, and no delay is taken for an
\* item that is skipped.
C26_DelayBetweenCalls ==
    /\ [](\A k \in 1..(Len(obs.log) - 1) :
            ~(obs.log[k] = "call" /\ obs.log[k + 1] = "call"))
    /\ [][obs'.log = Append(obs.log, "sleep")
           => /\ run.pc = "appended"
              /\ PromptId \in obs.called
              /\ PromptId < Len(prompts)]_vars

(***************************************************************************)
(* Properties of the scoring with a dataset file.                          *)
(***************************************************************************)
LoadFailed == ev.load \in {"missing", "garbage"}

\* C28 as claimed: when the dataset file is missing or unparsable,
\* evaluate_model_predictions does not raise, scores every record, and
\* resolves every record by the default (ground truth false).
C28_LoadFailureAllDefault ==
    LoadFailed
    => /\ ev.pc \in {"loop", "returned"}
       /\ (ev.pc = "loop" /\ ev.n > 0)
          => /\ ~ev.skipped
             /\ ev.source = "default"
             /\ LastSample.ground_truth = "false"

\* C28 amended: when the dataset file is missing or unparsable,
\* evaluate_model_predictions does not raise and consults no dataset
\* strategy: every record whose reply does not carry has_command null is
\* scored, with the flag embedded in its prompt as ground truth when the
\* prompt carries a boolean has_command, and with the default false
\* otherwise.
C28_LoadFailureNoDataset ==
    LoadFailed
    => /\ ev.pc \in {"loop", "returned"}
       /\ ev.dataset = <<>>
       /\ (ev.pc = "loop" /\ ev.n > 0)
          => /\ ev.skipped <=> NullReply(ev.item.response)
             /\ ~ev.skipped
                => /\ LastSample.prompt_id = ev.item.prompt_id
                   /\ IF Resolves(PromptFlag(ev.item.prompt))
                      THEN /\ ev.source = "embedded"
                           /\ LastSample.ground_truth = PromptFlag(ev.item.prompt)
                      ELSE /\ ev.source = "default"
                           /\ LastSample.ground_truth = "false"
       /\ ev.pc = "returned" => ev.result.total_samples = ev.n

\* C28 witness: the file does not parse, and a record whose prompt embeds
\* has_command true is scored with ground truth true
C28_Witness ==
    /\ ev.load = "garbage" /\ Scored
    /\ PromptFlag(ev.item.prompt) = "true"
    /\ ev.source = "embedded" /\ LastSample.ground_truth = "true"

(***************************************************************************)
(* Properties of the batch processor over changing prompt lists.           *)
(***************************************************************************)
\* the items of the current list that ended PERSISTED or SKIPPED_CACHED (a
\* record was appended) or SKIPPED_RESUMED (with resume on: in processed_ids
\* without an append of this run)
EndedProcessed ==
    obs.appended
    \cup (IF cfg.resume
          THEN {k \in 1..Len(prompts) : k \in svc.processed_ids \ obs.appended}
          ELSE {})

\* C29: process_prompts returns total_count = len(prompts) and
\* processed_count = the number of items of this list that ended PERSISTED,
\* SKIPPED_CACHED or SKIPPED_RESUMED, so 0 <= processed_count <= total_count
\* after any run, also a resumed run whose loaded summary came from a run
\* over a longer or different list.
C29_ResultCounts ==
    [][(run.pc = "loop" /\ run'.pc = "done")
       => /\ result'.total_count = Len(prompts)
          /\ result'.processed_count = Cardinality(EndedProcessed)
          /\ 0 <= result'.processed_count
          /\ result'.processed_count <= result'.total_count]_vars

LastCall == ev.last
\* the objects a text holds between prose (and array brackets) without braces
Embedded(text) ==
    {o \in ObjectTexts \cup NestedTexts :
        \E pre \in ProsePrefixes, open \in {"", "["}, close \in {"", "]"},
           post \in ProseSuffixes :
           /\ text = pre \o open \o o \o close \o post
           /\ text # o}

\* C31: extract_json_from_text raises nothing; it returns the parsed value
\* of a text that is valid JSON as a whole; of a text that is not, but holds
\* one JSON object between brace-free prose, it returns that object; and it
\* returns None when neither the whole text nor its brace span parses.
C31_ExtractJson ==
    (ev.pc = "json" /\ LastCall.op = "extract")
    => /\ LastCall.exc = ""
       /\ LoadsKind(LastCall.text) # "error"
          => LastCall.value = JsonValue(LastCall.text)
       /\ LoadsKind(LastCall.text) = "error"
          => /\ \A o \in Embedded(LastCall.text) : LastCall.value = JsonValue(o)
             /\ Embedded(LastCall.text) = {} => LastCall.value = JsonNone

\* C31 witness: the text is an object holding another object, with prose on
\* both sides, and the call returned that object
C31_Witness ==
    /\ ev.pc = "json" /\ LastCall.op = "extract"
    /\ LastCall.text
         = "Sure: " \o TxtNested([has_command |-> "true", dialog |-> "absent"]) \o " ok"
    /\ LastCall.value.kind = "dict"
    /\ LastCall.value.text = TxtNested([has_command |-> "true", dialog |-> "absent"])

\* C32: save_json_file to a writable path returns True and a following
\* load_json_file of that path returns a value equal to the one saved;
\* load_json_file of a missing or unparsable file returns the default.
C32_JsonRoundTrip ==
    ev.pc = "json"
    => /\ (LastCall.op = "save" /\ Writable(LastCall.path)) => LastCall.ret
       /\ (LastCall.op = "load" /\ ev.saved[LastCall.path] # JsonNone)
          => LastCall.value = ev.saved[LastCall.path]
       /\ (LastCall.op = "load"
           /\ ev.files[LastCall.path] \in {FileAbsent, FileGarbage})
          => LastCall.value = LastCall.default

(***************************************************************************)
(* C33: processed_ids and the summary in memory.                           *)
(***************************************************************************)
\* the prompt_id values of the records of a summary
PromptIdsOf(summary) ==
    {summary[k].prompt_id : k \in {n \in 1..Len(summary) : HasPromptId(summary[n])}}

\* C33: from the load of the checkpoint on, in every run on the service
\* instance (also when summary.json did not parse or holds entries without
\* prompt_id), processed_ids is the set of the prompt_id values of the
\* records of the summary in memory.
C33_ProcessedIdsMirror ==
    run.pc # "idle" => svc.processed_ids = PromptIdsOf(svc.summary)

(***************************************************************************)
(* C34: a record and the response file it names.                           *)
(***************************************************************************)
RecordAppended == Len(svc'.summary) = Len(svc.summary) + 1
NewRecord == svc'.summary[Len(svc'.summary)]

\* C34: when process_prompts appends a record (after a call or from an
\* existing response file), the file the record names is already in the
\* output directory and holds the record's response text; and every record
\* of summary.json names a file that is in the output directory.
C34_RecordMatchesArtifact ==
    /\ [](\A k \in 1..Len(Durable(disk)) :
             Durable(disk)[k].output_file \in DOMAIN disk.files)
    /\ [][(run.pc \in {"loop", "written"} /\ RecordAppended)
          => /\ NewRecord.output_file \in DOMAIN disk.files
             /\ disk.files[NewRecord.output_file] = NewRecord.response
             /\ disk'.files = disk.files]_vars

\* C34 witness: a record appended after a call whose reply was an object:
\* the record holds the pretty-printed object and so does its file
C34_Witness ==
    /\ run.pc = "appended"
    /\ LET rec == svc.summary[Len(svc.summary)] IN
       /\ rec.prompt_id \in obs.called
       /\ rec.response = DumpsIndent2([has_command |-> "true", dialog |-> "absent"])
       /\ rec.response # run.response
       /\ disk.files[rec.output_file] = rec.response

(***************************************************************************)
(* C35: the order of the records.                                          *)
(***************************************************************************)
\* C35: after every run of process_prompts (first runs and later runs over
\* the same list, resumed or not, also after items failed), the records of
\* the summary are in strictly increasing prompt_id order.
C35_SummaryOrder ==
    run.pc = "done"
    => \A k \in 1..(Len(svc.summary) - 1) :
          svc.summary[k].prompt_id < svc.summary[k + 1].prompt_id

(***************************************************************************)
(* C36: the sessions of a client.                                          *)
(***************************************************************************)
OpenSessions == {k \in 1..Len(ev.sessions) : ev.sessions[k] = "open"}

\* C36: under every interleaving of get_session, generate_async,
\* generate_stream and close_session on one client, every session the
\* client created that is open is the one the client refers to (so at most
\* one is open), and when a close_session has just completed and none is
\* still running, no session of the client is open.
C36_SessionsHeld ==
    ev.pc = "session"
    => /\ \A k \in OpenSessions : ev.ref = k
       /\ (ev.last = "close_end" /\ ev.closing = 0) => OpenSessions = {}

(***************************************************************************)
(* The matrix of a result against the tags of its samples.                 *)
(***************************************************************************)
MatrixCells == {"TP", "FP", "TN", "FN"}

\* the returned samples tagged c
SamplesTagged(res, c) == {k \in 1..Len(res.samples) : res.samples[k].category = c}

\* C39: in the result of evaluate_model_predictions, for each cell c of
\* {TP, FP, TN, FN} the confusion-matrix count of c equals the number of
\* returned samples whose category is c, and valid_samples equals the number
\* of returned samples.
C39_MatrixMatchesTags ==
    ev.pc = "returned"
    => /\ \A c \in MatrixCells :
             ev.result.confusion_matrix[c] = Cardinality(SamplesTagged(ev.result, c))
       /\ ev.result.valid_samples = Len(ev.result.samples)

\* a result with three samples in three different cells
C39_Witness ==
    /\ ev.pc = "returned"
    /\ Len(ev.result.samples) = 3
    /\ Cardinality({c \in MatrixCells : ev.result.confusion_matrix[c] = 1}) = 3

(***************************************************************************)
(* A response file that exists but cannot be read.                         *)
(***************************************************************************)
\* the read of the current item's response file fails on this step
ReadFailsNow ==
    /\ InLoop
    /\ IoFailed("read", PromptId) \notin obs.io
    /\ IoFailed("read", PromptId) \in obs'.io

\* the reply of an item whose read failed is being written on this step
WritesAfterReadFailure ==
    /\ run.pc = "got_reply" /\ run'.pc = "written"
    /\ IoFailed("read", PromptId) \in obs.io

\* C38: in process_prompts with resume on, when an artifact exists for an
\* item's fingerprint but reading it fails, no record is appended from the
\* cache and the item proceeds to CALLING (it is neither skipped nor marked
\* FAILED because of the read error), and the new reply is written to
\* response_{prompt_id}_{fingerprint}.json.
C38_ReadFailureFallsThrough ==
    /\ [][ReadFailsNow
          => /\ cfg.resume /\ ComputePromptHash(Prompt) \in DOMAIN run.existing
             /\ svc' = svc
             /\ PromptId \notin obs'.appended
             /\ PromptId \in obs'.called
             /\ obs'.log = Append(obs.log, "call")
             /\ \/ run'.pc = "got_reply" /\ run'.i = run.i
                                         /\ PromptId \notin obs'.failed
                \/ run'.pc = "loop" /\ run'.i = run.i + 1
                                    /\ PromptId \in obs'.failed]_vars
    /\ [][WritesAfterReadFailure
          => LET path == [id |-> PromptId, hash |-> ComputePromptHash(Prompt)] IN
             /\ run'.output_file = path
             /\ path \in DOMAIN disk'.files
             /\ disk'.files[path] = ArtifactText(run.response)]_vars

\* C38 witness: the second item's response file could not be read, its
\* reply was fetched and written under the item's own prompt_id
C38_Witness ==
    /\ run.pc = "written" /\ run.i = 1 /\ Len(prompts) = 2
    /\ IoFailed("read", 2) \in obs.io
    /\ 2 \in obs.called /\ 2 \notin obs.failed /\ 2 \notin obs.appended
    /\ [id |-> 2, hash |-> ComputePromptHash(prompts[2])] \in DOMAIN disk.files

(***************************************************************************)
(* Bounded work and termination of a run.                                  *)
(***************************************************************************)
\* generate is called on this step
CallsNow == InLoop /\ obs'.log = Append(obs.log, "call")

CallsLogged == {k \in 1..Len(obs.log) : obs.log[k] = "call"}

\* C37: for every finite prompt list and every behaviour of the remote
\* service that answers or fails each request, process_prompts terminates
\* and returns its result; in one run it calls OllamaClient.generate at most
\* once per item, and each generate call issues a number of HTTP requests
\* bounded by its retry budget and takes no backoff sleep after its final
\* attempt.
C37_BoundedWork ==
    /\ (run.pc # "idle") ~> (run.pc = "done")
    /\ [][(run.pc # "done" /\ run'.pc = "done")
          => result'.total_count = Len(prompts)]_vars
    /\ [][CallsNow => PromptId \notin obs.called]_vars
    /\ [](Cardinality(CallsLogged) <= Len(prompts))
    /\ [](gen.pc # "loop")
    /\ [](/\ Len(gen.requests) <= gen.retry_count
          /\ gen.requests = <<>> => gen.sleeps = <<>>
          /\ gen.requests # <<>> => Len(gen.sleeps) < Len(gen.requests))

\* C37 witness: a run over two items has returned; both were handed to
\* generate, and the last call used up its three requests with two sleeps
C37_Witness ==
    /\ run.pc = "done" /\ Len(prompts) = 2
    /\ obs.called = {1, 2}
    /\ gen.pc = "raised"
    /\ Len(gen.requests) = DefaultRetryCount
    /\ Len(gen.sleeps) = DefaultRetryCount - 1

====
